---- MODULE Spec2Model ----
(***************************************************************************)
(* A model of the APRS firehose client (rust-aprs): the login handshake    *)
(* and passcode (utils.rs, data.rs, client.rs) and the ingestion pipeline  *)
(* of main.rs: the read loop, the bounded queue, the three storage         *)
(* workers, the periodic reporter, the interrupt handler and process exit. *)
(*                                                                         *)
(* Strings are sequences of character codes (Unicode scalar values).       *)
(***************************************************************************)
EXTENDS Integers, Sequences, FiniteSets, TLC

(***************************************************************************)
(* Bounds of the model.                                                    *)
(***************************************************************************)
\* longest callsign drawn as input of the handshake specification
MaxCallLen == 3
\* longest "-SSID" suffix body a callsign variant is given
MaxSsidLen == 1
\* decodable data lines the stream delivers in the pipeline specification
MaxLines == 2
\* decodable data lines the stream delivers in the fault specification
FaultMaxLines == 1
\* insert_aprs_line calls of the store specification
MaxInserts == 1
\* lines read, and envelopes dequeued, in the backpressure specification
MaxBurst == 2
\* interrupts raised in the interrupt specification
MaxSignals == 2
\* end-of-stream results in a row in the interrupt specification
MaxEofRun == 1
\* elements of a relay path in the decode specification
MaxVia == 2
\* times the program is started again in the schema specification
MaxStarts == 1

(***************************************************************************)
(* Characters.                                                             *)
(***************************************************************************)
\* '-' , the separator generate_passcode splits the callsign at
DashChar == 45
\* '#' , the first character of a server comment line
HashChar == 35
\* the characters callsigns are drawn from: '-', '0', 'N', 'n'
CallChars == {45, 48, 78, 110}
\* the characters SSID bodies are drawn from: '9', 'a'
SsidChars == {57, 97}

\* char::to_uppercase restricted to the characters above (ASCII letters)
to_uppercase_char(c) == IF c >= 97 /\ c <= 122 THEN c - 32 ELSE c

\* str::to_uppercase: character by character
to_uppercase(s) == [i \in 1..Len(s) |-> to_uppercase_char(s[i])]

\* split_first without the split: the SSID is kept
split_first_keeps_ssid(s, i) == s

\* str::split('-').next(): the part before the first '-' (the whole string
\* when it holds none); it is always Some, so the `?` never returns None
RECURSIVE split_first(_, _)
split_first(s, i) ==
    IF i > Len(s) THEN s
    ELSE IF s[i] = DashChar THEN SubSeq(s, 1, i - 1)
    ELSE split_first(s, i + 1)

\* bitwise exclusive or of two naturals
RECURSIVE Xor(_, _)
Xor(a, b) ==
    IF a = 0 THEN b
    ELSE IF b = 0 THEN a
    ELSE (((a % 2) + (b % 2)) % 2) + 2 * Xor(a \div 2, b \div 2)

\* the width of the passcode accumulator (u16)
U16 == 65536

\* `c as u16`
as_u16(c) == c % U16

\* the shift done on a wider integer: no bit is lost
shl8_wide(c) == c * 256

\* `(c as u16) << 8` on a u16: the bits shifted out are lost
shl8(c) == (as_u16(c) * 256) % U16

\* the initial value of the accumulator
PasscodeSeed == 29666

\* passcode_loop with the two arms exchanged: the unshifted form comes first
RECURSIVE passcode_loop_low_first(_, _, _, _)
passcode_loop_low_first(s, i, passcode, high) ==
    IF i > Len(s) THEN passcode
    ELSE IF high
         THEN passcode_loop_low_first(s, i + 1, Xor(passcode, as_u16(s[i])), FALSE)
         ELSE passcode_loop_low_first(s, i + 1, Xor(passcode, shl8(s[i])), TRUE)

\* the for loop of generate_passcode over base_call[i..], with its `high` flag
RECURSIVE passcode_loop(_, _, _, _)
passcode_loop(s, i, passcode, high) ==
    IF i > Len(s) THEN passcode
    ELSE IF high
         THEN passcode_loop(s, i + 1, Xor(passcode, shl8(s[i])), FALSE)
         ELSE passcode_loop(s, i + 1, Xor(passcode, as_u16(s[i])), TRUE)

\* u16::to_string: the decimal digits, most significant first, no padding
RECURSIVE to_string(_)
to_string(n) ==
    IF n < 10 THEN <<48 + n>>
    ELSE Append(to_string(n \div 10), 48 + (n % 10))

\* the accumulator generate_passcode ends with
passcode_value(callsign_) ==
    passcode_loop(to_uppercase(split_first(callsign_, 1)), 1, PasscodeSeed, TRUE)

\* generate_passcode(callsign), the value inside the Some it returns
generate_passcode(callsign_) == to_string(passcode_value(callsign_))

\* Handshake::new
Handshake_new(callsign_) ==
    [callsign |-> callsign_, passcode |-> generate_passcode(callsign_)]

\* "user ", " pass ", "\r\n" and "\n"
StrUser == <<117, 115, 101, 114, 32>>
StrPass == <<32, 112, 97, 115, 115, 32>>
StrCrLf == <<13, 10>>
StrLf == <<10>>

\* format!("user {} pass {}\r\n", handshake.callsign, handshake.passcode)
handshake_line(h) == StrUser \o h.callsign \o StrPass \o h.passcode \o StrCrLf

\* what Framed<_, LinesCodec>::send(item) writes to the socket: LinesCodec's
\* encoder puts the item's bytes followed by one '\n'
LinesCodec_encode(item) == item \o StrLf


(***************************************************************************)
(* The ingestion pipeline.                                                 *)
(***************************************************************************)
\* the storage workers db_loop and mysql_loop spawn: `for i in 0..3`
NumWorkers == 3
Workers == 1..NumWorkers

\* LinesCodec::new_with_max_length(2048)
MaxLineLength == 2048

\* `if *error_count > 100 { panic!(..) }`
MaxErrorCount == 100

\* mpsc::channel(65534), the queue between the read loop and the workers
QueueCapacity == 65534

\* mpsc::channel(1), the channel of interrupt notices
CtrlcCapacity == 1

\* the variants of ParsedAprsData
Kinds == {"Position", "Message", "Status", "MicE", "Unknown"}

\* the envelopes ahead of the explicit queue where the backpressure
\* specification starts
Backlog == QueueCapacity - 1

\* the callsign of the pipeline specifications: "K0HAX-1"
PipelineCallsign == <<75, 48, 72, 65, 88, 45, 49>>

VARIABLES
    callsign,       \* the callsign argument of the command line
    variant,        \* a callsign that differs from it in case and SSID only
    wire,           \* the bytes the client has written to the socket
    mode,           \* DatabaseMode: "sqlite" or "mariadb"
    pcMain,         \* where the main task is
    mainEnv,        \* the envelope main_loop holds between read and count
    ctrlcChan,      \* notices pending in the interrupt channel
    error_count,    \* AprsClient::error_count
    lastRead,       \* the latest read_line call: what it was given and made of it
    queue,          \* the envelopes in the queue, oldest first
    txOpen,         \* the queue's sender (db_tx) has not been dropped
    pcW,            \* where each storage worker is
    wEnv,           \* the envelope each worker holds
    wRes,           \* the result of each worker's insert_aprs_line call
    rxHolder,       \* the worker holding the receiver's write lock, or 0
    parsed,         \* parse_counter
    persisted,      \* insert_counter
    pcLog,          \* where log_loop is
    finalSnapshot,  \* the pair the final println! of main printed, or <<>>
    exited,         \* the process has ended
    goodLines,      \* lines delivered that are framed, no comment and decodable
    made,           \* envelopes read_line has returned
    pushed,         \* envelopes tx.send has put in the queue
    dequeued,       \* envelopes rx.recv has handed to a worker
    handed,         \* ids of the envelopes given to insert_aprs_line
    insertCount,    \* calls of insert_aprs_line
    eofRun,         \* end-of-stream results since the last envelope read_line
                    \* returned (kept up to MaxErrorCount + 1)
    faultRun,       \* end-of-stream results since the last framed line that
                    \* was no comment, decoded or not
    failed,         \* insert_aprs_line calls that returned Err
    store,          \* the rows of the database
    now,            \* the UTC date Utc::now() gives
    rendered,       \* the latest timestamp rendered on its own, and the
                    \* two strings made of it
    packet,         \* the AprsPacket decode_textual returned for the line
                    \* decoded on its own
    envelope,       \* the ParsedLine parse_line made of it
    schema,         \* the tables of the database and the rows of `type`
    starts,         \* ghost: how often the program has been started again
    conn,           \* the worker that holds the Mutex of the embedded
                    \* database's Connection, 0 when it is free
    raised,         \* ghost: the interrupts raised so far (counted in the
                    \* interrupt specification)
    backlog,        \* envelopes at the head of the queue that are not spelled
                    \* out in `queue`: Status envelopes of consecutive ids
    lastInsert      \* the last insert_aprs_line call made on its own

vars == <<callsign, variant, wire, mode, pcMain, mainEnv, ctrlcChan,
          error_count, lastRead, queue, txOpen, pcW, wEnv, wRes, rxHolder,
          parsed, persisted, pcLog, finalSnapshot, exited, goodLines, made,
          pushed, dequeued, handed, insertCount, eofRun, faultRun,
          failed, store, lastInsert, backlog, raised, conn, now, rendered,
          packet, envelope, schema, starts>>

handshakeVars == <<callsign, variant, wire>>
mainVars == <<pcMain, mainEnv, error_count, lastRead, txOpen, finalSnapshot>>
workerVars == <<pcW, wEnv, wRes, rxHolder>>
clockVars == <<now, rendered>>
decodeVars == <<packet, envelope>>
schemaVars == <<schema, starts>>
storeVars == <<store, lastInsert, conn, clockVars, decodeVars, schemaVars>>
ghostVars == <<goodLines, made, pushed, dequeued, handed, insertCount, eofRun,
               faultRun, failed>>

NoEnv == [id |-> 0, kind |-> "none"]
NoRead == [tag |-> "none", first |-> <<>>, len |-> 0,
           outcome |-> "none", decoded |-> FALSE,
           parsedBefore |-> 0, pushedBefore |-> 0, madeBefore |-> 0]

(***************************************************************************)
(* What the socket has for the next read: end of stream, or a line of      *)
(* `len` bytes whose first character (if any) is `first` and which the     *)
(* external decoder AprsPacket::decode_textual would turn into `kind`      *)
(* ("DecodeError" when it rejects the line).                               *)
(***************************************************************************)
RawEof == [tag |-> "eof", first |-> <<>>, len |-> 0, kind |-> "DecodeError"]

RawLines ==
    {[tag |-> "line", first |-> <<>>, len |-> 0, kind |-> "DecodeError"]}
    \cup [tag : {"line"}, first : {<<HashChar>>, <<75>>},
          len : {MaxLineLength, MaxLineLength + 1},
          kind : Kinds \cup {"DecodeError"}]

RawItems == {RawEof} \cup RawLines

\* LinesCodec_decode of a codec built without a maximum length
LinesCodec_decode_unbounded(raw) ==
    IF raw.tag = "eof" THEN "None" ELSE "Ok"

\* Framed<TcpStream, LinesCodec>::next(): None at end of stream, Some(Err)
\* for a line over the maximum length, Some(Ok(line)) otherwise
LinesCodec_decode(raw) ==
    IF raw.tag = "eof" THEN "None"
    ELSE IF raw.len > MaxLineLength THEN "Err"
    ELSE "Ok"

\* parse_line that turns a line the decoder rejects into an Unknown record
parse_line_lenient(raw) ==
    IF raw.kind = "DecodeError"
    THEN [ok |-> TRUE, kind |-> "Unknown"]
    ELSE [ok |-> TRUE, kind |-> raw.kind]

\* parse_line: Err when decode_textual rejects the line, else the ParsedLine
parse_line(raw) ==
    IF raw.kind = "DecodeError"
    THEN [ok |-> FALSE, kind |-> "none"]
    ELSE [ok |-> TRUE, kind |-> raw.kind]

\* read_line_none with `>=` for `>`: the panic comes one result early
read_line_none_early(count) ==
    IF count + 1 >= MaxErrorCount
    THEN [outcome |-> "Panic", error_count |-> count + 1,
          decoded |-> FALSE, kind |-> "none"]
    ELSE [outcome |-> "ConnectionClosed", error_count |-> count + 1,
          decoded |-> FALSE, kind |-> "none"]

\* the None arm of read_line: count the fault, panic past the threshold
read_line_none(count) ==
    IF count + 1 > MaxErrorCount
    THEN [outcome |-> "Panic", error_count |-> count + 1,
          decoded |-> FALSE, kind |-> "none"]
    ELSE [outcome |-> "ConnectionClosed", error_count |-> count + 1,
          decoded |-> FALSE, kind |-> "none"]

\* read_line_some without the comment arm: every line goes to parse_line
read_line_some_unfiltered(raw, count) ==
    LET y == parse_line(raw)
    IN  IF y.ok
        THEN [outcome |-> "Ok", error_count |-> 0,
              decoded |-> TRUE, kind |-> y.kind]
        ELSE [outcome |-> "DecodeError", error_count |-> 0,
              decoded |-> TRUE, kind |-> "none"]

\* read_line_some with the reset of error_count in the Ok arm of parse_line
\* only
read_line_some_reset_on_ok(raw, count) ==
    IF raw.first = <<HashChar>>
    THEN [outcome |-> "CommentLine", error_count |-> count,
          decoded |-> FALSE, kind |-> "none"]
    ELSE LET y == parse_line(raw)
         IN  IF y.ok
             THEN [outcome |-> "Ok", error_count |-> 0,
                   decoded |-> TRUE, kind |-> y.kind]
             ELSE [outcome |-> "DecodeError", error_count |-> count,
                   decoded |-> TRUE, kind |-> "none"]

\* the Some(Ok(x)) arm of read_line: a comment is returned as an error at
\* once; any other line resets error_count and goes to parse_line
read_line_some(raw, count) ==
    IF raw.first = <<HashChar>>
    THEN [outcome |-> "CommentLine", error_count |-> count,
          decoded |-> FALSE, kind |-> "none"]
    ELSE LET y == parse_line(raw)
         IN  IF y.ok
             THEN [outcome |-> "Ok", error_count |-> 0,
                   decoded |-> TRUE, kind |-> y.kind]
             ELSE [outcome |-> "DecodeError", error_count |-> 0,
                   decoded |-> TRUE, kind |-> "none"]

\* AprsClient::read_line on the next item of the stream
read_line(raw, count) ==
    CASE LinesCodec_decode(raw) = "Ok" -> read_line_some(raw, count)
      [] LinesCodec_decode(raw) = "Err" ->
            [outcome |-> "FramingError", error_count |-> count,
             decoded |-> FALSE, kind |-> "none"]
      [] OTHER -> read_line_none(count)

(***************************************************************************)
(* The store: a set of rows. A cell is NULL or a value of some format; a   *)
(* row names its table and carries the columns the two backends fill       *)
(* differently or compute (the other columns are copies of the event's     *)
(* fields and are kept together as `payload`).                             *)
(***************************************************************************)
\* Option<Timestamp>: None, or Some of DDHHMM(x, y, z), HHMMSS(x, y, z) or
\* Unsupported
NoneTimestamp == [some |-> FALSE, variant |-> "none", x |-> 0, y |-> 0, z |-> 0]
DDHHMM(x_, y_, z_) == [some |-> TRUE, variant |-> "DDHHMM", x |-> x_, y |-> y_, z |-> z_]
HHMMSS(x_, y_, z_) == [some |-> TRUE, variant |-> "HHMMSS", x |-> x_, y |-> y_, z |-> z_]
Unsupported == [some |-> TRUE, variant |-> "Unsupported", x |-> 0, y |-> 0, z |-> 0]

\* the timestamps of the lines of the store specification: one that parses,
\* one that does not (hour 24), and an Unsupported one
SomeTimestamps == {DDHHMM(15, 7, 5), HHMMSS(24, 0, 0), Unsupported}

\* an instant in UTC, and the absence of one
Instant(year_, month_, day_, hour_, minute_, second_) ==
    [year |-> year_, month |-> month_, day |-> day_,
     hour |-> hour_, minute |-> minute_, second |-> second_]
NoInstant == Instant(0, 0, 0, 0, 0, 0)

\* cells: NULL, the empty string, a value named by `of`, or a time string
\* of the instant `at` in the format `format`
SqlNull == [null |-> TRUE, format |-> "null", of |-> "", at |-> NoInstant]
EmptyText == [null |-> FALSE, format |-> "text", of |-> "", at |-> NoInstant]
Cell(format_, of_) == [null |-> FALSE, format |-> format_, of |-> of_, at |-> NoInstant]
TimeCell(format_, at_) == [null |-> FALSE, format |-> format_, of |-> "instant", at |-> at_]

\* the calendar of chrono: leap years and the days of a month
IsLeapYear(year) == (year % 4 = 0 /\ year % 100 # 0) \/ year % 400 = 0
DaysInMonth(year, month) ==
    IF month = 2 THEN (IF IsLeapYear(year) THEN 29 ELSE 28)
    ELSE IF month \in {4, 6, 9, 11} THEN 30 ELSE 31
DaysInYear(year) == IF IsLeapYear(year) THEN 366 ELSE 365

\* the month and the day of the ordinal-th day of a year
RECURSIVE from_yo(_, _, _)
from_yo(year, ordinal, month) ==
    IF ordinal <= DaysInMonth(year, month)
    THEN [month |-> month, day |-> ordinal]
    ELSE from_yo(year, ordinal - DaysInMonth(year, month), month + 1)

\* DateTime::parse_from_str(.., "%Y-%j %H:%M:%S %z") on "year-x y:z:00
\* +0000": %j is the day of the year; Err for a field out of range
parse_year_ordinal(year, x, y, z) ==
    IF x >= 1 /\ x <= DaysInYear(year) /\ y <= 23 /\ z <= 59
    THEN [ok |-> TRUE,
          at |-> Instant(year, from_yo(year, x, 1).month,
                         from_yo(year, x, 1).day, y, z, 0)]
    ELSE [ok |-> FALSE, at |-> NoInstant]

\* DateTime::parse_from_str(.., "%Y-%m-%d %H:%M:%S %z") on "year-month-day
\* x:y:z +0000"
parse_year_month_day(year, month, day, x, y, z) ==
    IF x <= 23 /\ y <= 59 /\ z <= 59
    THEN [ok |-> TRUE, at |-> Instant(year, month, day, x, y, z)]
    ELSE [ok |-> FALSE, at |-> NoInstant]

\* the match of fmt_string and mariadb_string, which differ in the format
\* of the string only: the date parts the value lacks are taken from
\* Utc::now(); "" when the string does not parse or the value is Unsupported
timestamp_string(timestamp, format) ==
    LET parsed_ ==
            CASE timestamp.variant = "DDHHMM" ->
                    parse_year_ordinal(now.year, timestamp.x, timestamp.y,
                                       timestamp.z)
              [] timestamp.variant = "HHMMSS" ->
                    parse_year_month_day(now.year, now.month, now.day,
                                         timestamp.x, timestamp.y, timestamp.z)
              [] OTHER -> [ok |-> FALSE, at |-> NoInstant]
    IN  IF parsed_.ok THEN TimeCell(format, parsed_.at) ELSE EmptyText

\* Timestamp::fmt_string: the time in "%+" form
fmt_string(y) == timestamp_string(y, "%+")

\* Timestamp::mariadb_string: the same in "%Y-%m-%d %H:%M:%S%.6f" form
mariadb_string(y) == timestamp_string(y, "%Y-%m-%d %H:%M:%S%.6f")

\* the timestamp bound by each backend: sqlite binds "" for None, mariadb
\* binds an Option<String>, None being NULL
timestamp_cell(backend, timestamp) ==
    IF backend = "sqlite"
    THEN (IF timestamp.some THEN fmt_string(timestamp) ELSE EmptyText)
    ELSE (IF timestamp.some THEN mariadb_string(timestamp) ELSE SqlNull)

\* the msg_id bound by either backend: the id's bytes, or 0 for None
msg_id_cell(msg_id_some) ==
    IF msg_id_some THEN Cell("bytes", "id") ELSE Cell("integer", "0")

\* ", "
StrCommaSpace == <<44, 32>>

\* str::trim_end_matches(pat): pat is taken off the end as often as it is there
RECURSIVE trim_end_matches(_, _)
trim_end_matches(s, pat) ==
    IF Len(s) >= Len(pat) /\ SubSeq(s, Len(s) - Len(pat) + 1, Len(s)) = pat
    THEN trim_end_matches(SubSeq(s, 1, Len(s) - Len(pat)), pat)
    ELSE s

\* via.iter().map(|x| x.to_string() + ", ").collect::<String>()
RECURSIVE via_collect(_, _)
via_collect(via, i) ==
    IF i > Len(via) THEN <<>>
    ELSE via[i] \o StrCommaSpace \o via_collect(via, i + 1)

\* via_string without the trim
via_string_untrimmed(via) == via_collect(via, 1)

\* the `via` column
via_string(via) == trim_end_matches(via_collect(via, 1), StrCommaSpace)

\* variant_table with Status lines written to the messages table
variant_table_status_as_message(kind) ==
    CASE kind = "Position" -> "position"
      [] kind = "Message" -> "messages"
      [] kind = "Status" -> "messages"
      [] kind = "MicE" -> "MicE"
      [] OTHER -> "none"

\* the table and the type code of each storable variant
variant_table(kind) ==
    CASE kind = "Position" -> "position"
      [] kind = "Message" -> "messages"
      [] kind = "Status" -> "status"
      [] kind = "MicE" -> "MicE"
      [] OTHER -> "none"

\* type_info with the codes of Message and Position exchanged
type_info_exchanged(kind) ==
    CASE kind = "Position" -> 1
      [] kind = "Message" -> 2
      [] kind = "Status" -> 3
      [] kind = "MicE" -> 4
      [] OTHER -> 0

type_info(kind) ==
    CASE kind = "Position" -> 2
      [] kind = "Message" -> 1
      [] kind = "Status" -> 3
      [] kind = "MicE" -> 4
      [] OTHER -> 0

NoCell == [null |-> FALSE, format |-> "absent", of |-> "", at |-> NoInstant]

\* the columns that are copies of the variant's fields: `to` and `comment`
\* (strings), `addressee` and `text` (of a Message), and, as `other`, a name
\* for the remaining ones
NoFields == [to |-> <<>>, comment |-> <<>>, addressee |-> <<>>, text |-> <<>>,
             other |-> ""]
Fields(to_, comment_, other_) ==
    [to |-> to_, comment |-> comment_, addressee |-> <<>>, text |-> <<>>,
     other |-> other_]
MessageFields(to_, addressee_, text_) ==
    [to |-> to_, comment |-> <<>>, addressee |-> addressee_, text |-> text_,
     other |-> ""]

\* "APRS", "c", "a", "t"
StrAPRS == <<65, 80, 82, 83>>
StrC == <<99>>
StrA == <<97>>
StrT == <<116>>

\* the fields of the lines of the specifications, by variant
FieldsOf(kind) ==
    CASE kind = "Position" -> Fields(StrAPRS, StrC, "position")
      [] kind = "Message" -> MessageFields(StrAPRS, StrA, StrT)
      [] kind = "Status" -> Fields(StrAPRS, StrC, "")
      [] kind = "MicE" -> Fields(<<>>, StrC, "mic_e")
      [] OTHER -> NoFields

\* the row of the variant's INSERT
variant_row(backend, record_uuid, data) ==
    [table |-> variant_table(data.kind),
     id |-> record_uuid,
     timestamp |-> IF data.kind \in {"Position", "Status"}
                   THEN timestamp_cell(backend, data.timestamp)
                   ELSE NoCell,
     msg_id |-> IF data.kind = "Message"
                THEN msg_id_cell(data.msg_id_some)
                ELSE NoCell,
     payload |-> data.fields,
     from |-> <<>>, via |-> <<>>, type |-> 0]

\* the row of the INSERT INTO main_data
main_data_row(record_uuid, data) ==
    [table |-> "main_data",
     id |-> record_uuid,
     timestamp |-> NoCell,
     msg_id |-> NoCell,
     payload |-> NoFields,
     from |-> data.from, via |-> via_string(data.via),
     type |-> type_info(data.kind)]

\* statement.execute(..)?: the row is added unless the statement fails, as
\* it does when the table holds a row of the same id (PRIMARY KEY)
execute(rows, row, fails) ==
    IF fails \/ \E r \in rows : r.table = row.table /\ r.id = row.id
    THEN [ok |-> FALSE, rows |-> rows]
    ELSE [ok |-> TRUE, rows |-> rows \cup {row}]

\* insert_aprs_line that gives Unknown a main_data row of type 0
insert_aprs_line_unknown_stored(backend, rows, record_uuid, data, fault) ==
    LET first == IF data.kind = "Unknown"
                 THEN [ok |-> TRUE, rows |-> rows]
                 ELSE execute(rows, variant_row(backend, record_uuid, data),
                              fault = "variant")
        second == execute(first.rows, main_data_row(record_uuid, data),
                          fault = "main")
    IN  IF ~first.ok THEN [result |-> "Err", rows |-> first.rows]
        ELSE IF ~second.ok THEN [result |-> "Err", rows |-> second.rows]
        ELSE [result |-> "Ok", rows |-> second.rows]

\* insert_aprs_line (either backend) on the store `rows`: Unknown has no
\* table and is an error before any statement; any other variant executes
\* its own INSERT, then the one into main_data, and returns at the first
\* that fails (`?`), with what was written left in place. `fault` names the
\* statement the database fails ("none", "variant" or "main")
insert_aprs_line(backend, rows, record_uuid, data, fault) ==
    IF data.kind = "Unknown"
    THEN [result |-> "Err", rows |-> rows]
    ELSE LET first == execute(rows, variant_row(backend, record_uuid, data),
                              fault = "variant")
             second == execute(first.rows, main_data_row(record_uuid, data),
                               fault = "main")
         IN  IF ~first.ok THEN [result |-> "Err", rows |-> first.rows]
             ELSE IF ~second.ok THEN [result |-> "Err", rows |-> second.rows]
             ELSE [result |-> "Ok", rows |-> second.rows]

Faults == {"none", "variant", "main"}

\* the ParsedLine of an envelope of the pipeline specifications: "K0" via
\* "W", "q", with no timestamp and no message id
PipelineFrom == <<75, 48>>
PipelineVia == <<(<<87>>), (<<113>>)>>
ParsedLine_of(env) ==
    [from |-> PipelineFrom, via |-> PipelineVia, kind |-> env.kind,
     fields |-> FieldsOf(env.kind),
     timestamp |-> NoneTimestamp, msg_id_some |-> FALSE]

\* aprs_parser::Via: a callsign with its `heard` flag, or a q-construct
ViaCallsign(name_, heard_) ==
    [tag |-> "Callsign", name |-> name_, heard |-> heard_]
ViaQConstruct(name_) == [tag |-> "QConstruct", name |-> name_, heard |-> FALSE]

\* the loop of parse_line over result.via: the callsign of a Callsign
\* element, the text of a QConstruct
via_strings(via) ==
    [i \in 1..Len(via) |->
        CASE via[i].tag = "Callsign" -> via[i].name
          [] via[i].tag = "QConstruct" -> via[i].name]

\* "<ERROR PARSING UTF8>"
StrErrorParsingUtf8 == <<60, 69, 82, 82, 79, 82, 32, 80, 65, 82, 83, 73, 78, 71, 32, 85, 84, 70, 56, 62>>

\* std::str::from_utf8(bytes) is Ok: on byte sequences made of ASCII bytes
\* and of the bytes 0xFE and 0xFF, which no UTF-8 text holds
from_utf8_ok(bytes) == \A i \in 1..Len(bytes) : bytes[i] < 128

\* from_utf8_or_sentinel with an empty string for the sentinel
from_utf8_or_empty(bytes) ==
    IF from_utf8_ok(bytes) THEN bytes ELSE <<>>

\* std::str::from_utf8(bytes).unwrap_or_else(|_| "<ERROR PARSING UTF8>")
from_utf8_or_sentinel(bytes) ==
    IF from_utf8_ok(bytes) THEN bytes ELSE StrErrorParsingUtf8

\* the payload of a decoded packet (aprs_parser::AprsData): `comment`,
\* `addressee` and `text` are byte sequences, `other` names the rest
AprsData(kind_, to_, timestamp_, comment_, addressee_, text_, id_some_, other_) ==
    [kind |-> kind_, to |-> to_, timestamp |-> timestamp_, comment |-> comment_,
     addressee |-> addressee_, text |-> text_, id_some |-> id_some_,
     other |-> other_]

\* ParsedAprsData::from and the From impls of the four variants
ParsedAprsData_from(item) ==
    CASE item.kind = "Message" ->
           MessageFields(item.to, from_utf8_or_sentinel(item.addressee),
                         from_utf8_or_sentinel(item.text))
      [] item.kind \in {"Position", "Status", "MicE"} ->
           Fields(item.to, from_utf8_or_sentinel(item.comment), item.other)
      [] OTHER -> NoFields

\* Timestamp::from(aprs_parser::Timestamp): variant by variant, with the
\* same three numbers
Timestamp_from(item) ==
    CASE item.variant = "DDHHMM" -> DDHHMM(item.x, item.y, item.z)
      [] item.variant = "HHMMSS" -> HHMMSS(item.x, item.y, item.z)
      [] item.variant = "Unsupported" -> Unsupported
      [] OTHER -> NoneTimestamp

\* parse_line from the packet decode_textual returned
ParsedLine_from(result) ==
    [from |-> result.from, via |-> via_strings(result.via),
     kind |-> result.data.kind,
     fields |-> ParsedAprsData_from(result.data),
     timestamp |-> Timestamp_from(result.data.timestamp),
     msg_id_some |-> result.data.id_some]

\* Uuid::new_v4() in a worker: an identifier no other call returns, named
\* here after the envelope it is generated for
new_v4(env) == env.id

\* counter_after_insert with the increment in the Ok arm only
counter_after_insert_ok_only(result, counter) ==
    IF result = "Ok" THEN counter + 1 ELSE counter

\* the counter after the `match db_result` of a worker: both arms add one
counter_after_insert(result, counter) ==
    IF result = "Ok" THEN counter + 1 ELSE counter + 1

\* a counter that starts again from zero once it has counted a line
counter_after_send_restarts(counter) == IF counter >= 1 THEN 0 ELSE counter + 1

\* a counter that main_loop leaves as it is
counter_after_send_skipped(counter) == counter

\* the counter after `*counter += 1` in main_loop
counter_after_send(counter) == counter + 1


(***************************************************************************)
(* State the actions read.                                                 *)
(***************************************************************************)
\* the envelopes in the queue: the backlog, then `queue`
QueueLen == backlog + Len(queue)

\* the envelope at the head of the queue: the backlog holds the Status
\* envelopes of ids Backlog - backlog + 1 .. Backlog
QueueHead ==
    IF backlog > 0
    THEN [id |-> Backlog - backlog + 1, kind |-> "Status"]
    ELSE Head(queue)

\* the queue's Receiver exists: main holds it until the workers are spawned,
\* then every worker task that has not ended holds a clone of its Arc
rxAlive == \E w \in Workers : pcW[w] \notin {"done", "dead"}

\* ctrlc_rx exists: it is created in main and dropped when main_loop returns
\* or the main task unwinds
ctrlcRxAlive == pcMain \in {"connect", "setup", "loop_top", "read", "send", "count"}

\* what main would see were the workers of db_loop not awaited
loop_task_finished_detached == TRUE

\* the task main joins has finished: db_loop awaits its three workers;
\* mysql_loop spawns its workers, drops their handles and returns
loop_task_finished ==
    IF mode = "sqlite"
    THEN \A w \in Workers : pcW[w] = "done"
    ELSE TRUE

\* a line within the length limit that is no comment
IsFramedDataLine(raw) ==
    /\ raw.tag = "line"
    /\ raw.len <= MaxLineLength
    /\ raw.first # <<HashChar>>

\* a line that is framed, is no comment and decodes
IsGoodLine(raw) == IsFramedDataLine(raw) /\ raw.kind # "DecodeError"

\* a line that is framed and no comment, and does not decode
IsBadLine(raw) == IsFramedDataLine(raw) /\ raw.kind = "DecodeError"

(***************************************************************************)
(* The main task.                                                          *)
(***************************************************************************)
\* a main that spawns the storage loop before it connects to the server
MainConnect_after_spawn(outcome) ==
    /\ ~exited
    /\ pcMain = "connect"
    /\ IF outcome = "ok"
       THEN /\ wire' = wire \o LinesCodec_encode(handshake_line(Handshake_new(callsign)))
            /\ pcMain' = "setup"
            /\ txOpen' = txOpen
       ELSE /\ wire' = wire
            /\ pcMain' = "panicked"
            /\ txOpen' = FALSE
    /\ pcW' = [w \in Workers |-> IF mode = "sqlite" THEN "lock_rx" ELSE "connect"]
    /\ UNCHANGED <<storeVars, raised, callsign, variant, mode, mainEnv, ctrlcChan, error_count,
                   lastRead, queue, backlog, wEnv, wRes, rxHolder, parsed, persisted, pcLog,
                   finalSnapshot, exited, ghostVars>>

\* AprsClient::new: resolve, connect, send the login line; each step is
\* unwrapped, so a failure panics the main task
MainConnect(outcome) ==
    /\ ~exited
    /\ pcMain = "connect"
    /\ IF outcome = "ok"
       THEN /\ wire' = wire \o LinesCodec_encode(handshake_line(Handshake_new(callsign)))
            /\ pcMain' = "setup"
            /\ txOpen' = txOpen
       ELSE /\ wire' = wire
            /\ pcMain' = "panicked"
            /\ txOpen' = FALSE
    /\ UNCHANGED <<storeVars, raised, callsign, variant, mode, mainEnv, ctrlcChan, error_count,
                   lastRead, queue, backlog, workerVars, parsed, persisted, pcLog,
                   finalSnapshot, exited, ghostVars>>

\* the tables, and the rows create_db and create_tables put in `type`
DataTables == {"messages", "position", "status", "MicE", "main_data"}
AllTables == DataTables \cup {"type"}
TypeRow(id_, table_) == [id |-> id_, table |-> table_]
TypeTable ==
    <<TypeRow(1, "messages"), TypeRow(2, "position"), TypeRow(3, "status"),
      TypeRow(4, "MicE")>>
EmptySchema == [tables |-> {}, type_rows |-> {}]
CreatedSchema ==
    [tables |-> AllTables, type_rows |-> {TypeTable[i] : i \in 1..Len(TypeTable)}]

\* the statements of the two schema operations
CreateTable(table_) == [op |-> "create", tables |-> {table_}, row |-> TypeRow(0, "")]
DropTables(tables_) == [op |-> "drop", tables |-> tables_, row |-> TypeRow(0, "")]
InsertType(row_) == [op |-> "insert", tables |-> {"type"}, row |-> row_]
InsertTypes == [i \in 1..Len(TypeTable) |-> InsertType(TypeTable[i])]

\* the statements of SqliteDb::create_db, in their order
create_db_statements ==
    <<CreateTable("messages"), CreateTable("position"), CreateTable("status"),
      CreateTable("MicE"), CreateTable("type")>>
    \o InsertTypes \o <<CreateTable("main_data")>>

\* the statements of ConnectionArc::create_tables, in their order
create_tables_statements ==
    <<DropTables(AllTables), CreateTable("messages"), CreateTable("position"),
      CreateTable("status"), CreateTable("MicE"), CreateTable("type")>>
    \o InsertTypes \o <<CreateTable("main_data")>>

\* the faults of a schema operation: none (0), or the number of the
\* statement the engine fails for a reason of its own
SchemaFaults == 0..Len(create_tables_statements)

\* the database as a schema operation that is not run leaves it
untouched(db) ==
    [result |-> "Ok", failed_at |-> 0, schema |-> db.schema, rows |-> db.rows]

\* one statement executed on the database `db` (its schema and its rows):
\* CREATE TABLE fails when the table is there, INSERT INTO type when the
\* table is missing or holds the primary key, DROP TABLE IF EXISTS never
execute_statement(db, statement) ==
    CASE statement.op = "create" ->
           IF statement.tables \subseteq db.schema.tables
           THEN [ok |-> FALSE, schema |-> db.schema, rows |-> db.rows]
           ELSE [ok |-> TRUE,
                 schema |-> [db.schema EXCEPT
                                !.tables = @ \cup statement.tables],
                 rows |-> db.rows]
      [] statement.op = "insert" ->
           IF \/ "type" \notin db.schema.tables
              \/ \E r \in db.schema.type_rows : r.id = statement.row.id
           THEN [ok |-> FALSE, schema |-> db.schema, rows |-> db.rows]
           ELSE [ok |-> TRUE,
                 schema |-> [db.schema EXCEPT
                                !.type_rows = @ \cup {statement.row}],
                 rows |-> db.rows]
      [] statement.op = "drop" ->
           [ok |-> TRUE,
            schema |-> [tables |-> db.schema.tables \ statement.tables,
                        type_rows |-> IF "type" \in statement.tables THEN {}
                                      ELSE db.schema.type_rows],
            rows |-> {r \in db.rows : r.table \notin statement.tables}]

\* the statements from the i-th on, each under `?`: the first that fails
\* ends the operation, and what the earlier ones did stays
RECURSIVE execute_all(_, _, _, _)
execute_all(db, statements, i, fault) ==
    IF i > Len(statements) THEN untouched(db)
    ELSE LET r == execute_statement(db, statements[i])
         IN  IF i = fault \/ ~r.ok
             THEN [result |-> "Err", failed_at |-> i, schema |-> db.schema,
                   rows |-> db.rows]
             ELSE execute_all([schema |-> r.schema, rows |-> r.rows],
                              statements, i + 1, fault)

\* create_db that drops the tables before it creates them
create_db_dropping(db, fault) ==
    execute_all(db, <<DropTables(AllTables)>> \o create_db_statements, 1, fault)

\* SqliteDb::create_db: no transaction, each statement is kept as it is made
create_db(db, fault) == execute_all(db, create_db_statements, 1, fault)

\* create_tables without the DROP TABLE statement
create_tables_keeping(db, fault, autocommit) ==
    execute_all(db, create_db_statements, 1, fault)

\* ConnectionArc::create_tables: the transaction `tx` is begun and never
\* committed.  The engine commits by itself before every DROP TABLE and
\* CREATE TABLE; the rows inserted into `type` after the last of them are
\* kept as they are made when the session commits automatically, and are
\* lost with `tx` when it does not
create_tables(db, fault, autocommit) ==
    LET r == execute_all(db, create_tables_statements, 1, fault)
    IN  IF ~autocommit /\ r.result = "Err"
           /\ create_tables_statements[r.failed_at].op = "insert"
        THEN [r EXCEPT !.schema.type_rows = {}]
        ELSE r

\* how the store answers main before the storage loop is spawned
SetupOutcomes == {"ok", "store_err"}

\* main, from the counters to the spawn of log_loop: the storage loop of the
\* chosen mode and the reporter are spawned. Before that, the embedded mode
\* opens the database file with `Connection::open(path).unwrap()`, and the
\* networked mode, when asked to create the tables, connects with
\* `MySqlConnection::connect(..).await.unwrap()` and runs create_tables
\* under `?`: a store that fails there ends main before anything is spawned
\* In the embedded mode create_db is then run and its result dropped; in the
\* networked mode create_tables is run when db_settings.create_tables is
\* set, and its Err ends main too
MainSetup(outcome, create_tables_flag, fault, autocommit) ==
    /\ ~exited
    /\ pcMain = "setup"
    /\ LET db == [schema |-> schema, rows |-> store]
           r == IF outcome # "ok" THEN untouched(db)
                ELSE IF mode = "sqlite" THEN create_db(db, fault)
                ELSE IF create_tables_flag
                THEN create_tables(db, fault, autocommit)
                ELSE untouched(db)
       IN  /\ schema' = r.schema
           /\ store' = r.rows
           /\ IF outcome = "ok" /\ (mode = "mariadb" => r.result = "Ok")
              THEN /\ pcMain' = "loop_top"
                   /\ pcW' = [w \in Workers |->
                                 IF mode = "sqlite" THEN "lock_rx" ELSE "connect"]
                   /\ pcLog' = "idle"
                   /\ txOpen' = txOpen
              ELSE /\ pcMain' = "setup_failed"
                   /\ txOpen' = FALSE
                   /\ UNCHANGED <<pcW, pcLog>>
    /\ UNCHANGED <<lastInsert, conn, clockVars, decodeVars, starts, raised, handshakeVars, mode, mainEnv, ctrlcChan, error_count,
                   lastRead, queue, backlog, wEnv, wRes, rxHolder, parsed,
                   persisted, finalSnapshot, exited, ghostVars>>

\* a main_loop that goes on to read_line without looking at the channel
MainPollEmpty_unpolled ==
    /\ ~exited
    /\ pcMain = "loop_top"
    /\ pcMain' = "read"
    /\ lastRead' = NoRead
    /\ UNCHANGED <<storeVars, raised, handshakeVars, mode, mainEnv, ctrlcChan, error_count, queue, backlog,
                   txOpen, workerVars, parsed, persisted, pcLog,
                   finalSnapshot, exited, ghostVars>>

\* main_loop, try_recv gives Empty: go on to read_line
MainPollEmpty ==
    /\ ~exited
    /\ pcMain = "loop_top"
    /\ ctrlcChan = 0
    /\ pcMain' = "read"
    /\ lastRead' = NoRead
    /\ UNCHANGED <<storeVars, raised, handshakeVars, mode, mainEnv, ctrlcChan, error_count, queue, backlog,
                   txOpen, workerVars, parsed, persisted, pcLog,
                   finalSnapshot, exited, ghostVars>>

\* main_loop, try_recv gives Ok(()): break; main_loop returns and drops tx
MainPollCtrlC ==
    /\ ~exited
    /\ pcMain = "loop_top"
    /\ ctrlcChan > 0
    /\ ctrlcChan' = ctrlcChan - 1
    /\ pcMain' = "join"
    /\ txOpen' = FALSE
    /\ lastRead' = NoRead
    /\ UNCHANGED <<storeVars, raised, handshakeVars, mode, mainEnv, error_count, queue, backlog,
                   workerVars, parsed, persisted, pcLog, finalSnapshot,
                   exited, ghostVars>>

\* main_loop, `aprs_client.read_line().await` on the stream's next item:
\* Ok goes on to send, Err is logged and the loop continues, the panic of
\* read_line unwinds the main task (which drops tx)
MainReadLine(raw) ==
    /\ ~exited
    /\ pcMain = "read"
    /\ LET r == read_line(raw, error_count)
       IN  /\ error_count' = r.error_count
           /\ lastRead' = [tag |-> raw.tag, first |-> raw.first, len |-> raw.len,
                           outcome |-> r.outcome, decoded |-> r.decoded,
                           parsedBefore |-> parsed, pushedBefore |-> pushed,
                           madeBefore |-> made]
           /\ CASE r.outcome = "Ok" ->
                     /\ pcMain' = "send"
                     /\ mainEnv' = [id |-> made + 1, kind |-> r.kind]
                     /\ made' = made + 1
                     /\ txOpen' = txOpen
                [] r.outcome = "Panic" ->
                     /\ pcMain' = "panicked"
                     /\ txOpen' = FALSE
                     /\ UNCHANGED <<mainEnv, made>>
                [] OTHER ->
                     /\ pcMain' = "loop_top"
                     /\ UNCHANGED <<mainEnv, made, txOpen>>
    /\ goodLines' = IF IsGoodLine(raw) THEN goodLines + 1 ELSE goodLines
    /\ eofRun' = IF raw.tag = "eof"
                 THEN (IF eofRun > MaxErrorCount THEN eofRun ELSE eofRun + 1)
                 ELSE IF IsGoodLine(raw) THEN 0 ELSE eofRun
    /\ faultRun' = IF raw.tag = "eof" THEN faultRun + 1
                   ELSE IF IsFramedDataLine(raw) THEN 0 ELSE faultRun
    /\ UNCHANGED <<storeVars, raised, handshakeVars, mode, ctrlcChan, queue, backlog, workerVars, parsed,
                   persisted, pcLog, finalSnapshot, exited, pushed, dequeued,
                   handed, insertCount, failed>>

\* MainSend with try_send for send: an envelope that finds the queue full is
\* dropped
MainSend_drop_when_full ==
    /\ ~exited
    /\ pcMain = "send"
    /\ IF rxAlive /\ QueueLen < QueueCapacity
       THEN /\ queue' = Append(queue, mainEnv)
            /\ pushed' = pushed + 1
       ELSE UNCHANGED <<queue, pushed>>
    /\ backlog' = backlog
    /\ pcMain' = "count"
    /\ UNCHANGED <<storeVars, raised, handshakeVars, mode, mainEnv, ctrlcChan,
                   error_count, lastRead, txOpen, workerVars, parsed, persisted,
                   pcLog, finalSnapshot, exited, goodLines, made, dequeued,
                   handed, insertCount, eofRun, faultRun, failed>>

\* main_loop, `let _ = tx.send(..).await`: waits while the queue is full; with
\* the Receiver gone send returns an error, which is discarded
MainSend ==
    /\ ~exited
    /\ pcMain = "send"
    /\ IF rxAlive
       THEN /\ QueueLen < QueueCapacity
            /\ queue' = Append(queue, mainEnv)
            /\ pushed' = pushed + 1
       ELSE UNCHANGED <<queue, pushed>>
    /\ backlog' = backlog
    /\ pcMain' = "count"
    /\ UNCHANGED <<storeVars, raised, handshakeVars, mode, mainEnv, ctrlcChan, error_count,
                   lastRead, txOpen, workerVars, parsed, persisted, pcLog,
                   finalSnapshot, exited, goodLines, made, dequeued, handed,
                   insertCount, eofRun, faultRun, failed>>

\* main_loop, `counter_arc.write().await; *counter += 1`: the write lock
\* waits for log_loop's read guard
MainCount ==
    /\ ~exited
    /\ pcMain = "count"
    /\ pcLog # "hold_parse"
    /\ parsed' = counter_after_send(parsed)
    /\ mainEnv' = NoEnv
    /\ pcMain' = "loop_top"
    /\ UNCHANGED <<storeVars, raised, handshakeVars, mode, ctrlcChan, error_count, lastRead,
                   queue, backlog, txOpen, workerVars, persisted, pcLog, finalSnapshot,
                   exited, ghostVars>>

\* main, `for handle in handles { handle.await }`
MainJoin ==
    /\ ~exited
    /\ pcMain = "join"
    /\ loop_task_finished
    /\ pcMain' = "final"
    /\ UNCHANGED <<storeVars, raised, handshakeVars, mode, mainEnv, ctrlcChan, error_count,
                   lastRead, queue, backlog, txOpen, workerVars, parsed, persisted,
                   pcLog, finalSnapshot, exited, ghostVars>>

\* main, the final "Parsed: {} | Inserted: {}" under both read guards, then
\* Ok(())
MainFinal ==
    /\ ~exited
    /\ pcMain = "final"
    /\ finalSnapshot' = <<parsed, persisted>>
    /\ pcMain' = "returned"
    /\ UNCHANGED <<storeVars, raised, handshakeVars, mode, mainEnv, ctrlcChan, error_count,
                   lastRead, queue, backlog, txOpen, workerVars, parsed, persisted,
                   pcLog, exited, ghostVars>>

\* the process ends once main has returned, with Ok or Err, or panicked: the runtime is
\* dropped and every task still alive is dropped where it stands
ProcessExit ==
    /\ ~exited
    /\ pcMain \in {"returned", "panicked", "setup_failed"}
    /\ exited' = TRUE
    /\ UNCHANGED <<storeVars, raised, handshakeVars, mode, mainVars, ctrlcChan, queue, backlog, workerVars,
                   parsed, persisted, pcLog, ghostVars>>


(***************************************************************************)
(* The storage workers (the tasks spawned by db_loop and mysql_loop).      *)
(***************************************************************************)
\* mysql_loop worker, `ConnectionArc::new(..).await`: the connect is
\* unwrapped, so a failure panics the worker task
WorkerConnect(w, ok) ==
    /\ ~exited
    /\ pcW[w] = "connect"
    /\ pcW' = [pcW EXCEPT ![w] = IF ok THEN "lock_rx" ELSE "dead"]
    /\ UNCHANGED <<storeVars, raised, handshakeVars, mode, mainVars, ctrlcChan, queue, backlog, wEnv, wRes,
                   rxHolder, parsed, persisted, pcLog, exited, ghostVars>>

\* worker, `rx_inner.write().await`: the receiver's write lock
WorkerLockRx(w) ==
    /\ ~exited
    /\ pcW[w] = "lock_rx"
    /\ rxHolder = 0
    /\ rxHolder' = w
    /\ pcW' = [pcW EXCEPT ![w] = "recv"]
    /\ UNCHANGED <<storeVars, raised, handshakeVars, mode, mainVars, ctrlcChan, queue, backlog, wEnv, wRes,
                   parsed, persisted, pcLog, exited, ghostVars>>

\* worker, `rx.recv().await` gives Some(async_line); the lock is dropped
WorkerRecvSome(w) ==
    /\ ~exited
    /\ pcW[w] = "recv"
    /\ QueueLen > 0
    /\ wEnv' = [wEnv EXCEPT ![w] = QueueHead]
    /\ IF backlog > 0
       THEN backlog' = backlog - 1 /\ queue' = queue
       ELSE backlog' = backlog /\ queue' = Tail(queue)
    /\ dequeued' = dequeued + 1
    /\ rxHolder' = 0
    /\ pcW' = [pcW EXCEPT ![w] = "insert"]
    /\ UNCHANGED <<storeVars, raised, handshakeVars, mode, mainVars, ctrlcChan, wRes, parsed,
                   persisted, pcLog, exited, goodLines, made, pushed, handed,
                   insertCount, eofRun, faultRun, failed>>

\* worker, `rx.recv().await` gives None (sender dropped, queue empty): the
\* lock is dropped and the while loop ends
WorkerRecvNone(w) ==
    /\ ~exited
    /\ pcW[w] = "recv"
    /\ QueueLen = 0
    /\ ~txOpen
    /\ rxHolder' = 0
    /\ pcW' = [pcW EXCEPT ![w] = "done"]
    /\ UNCHANGED <<storeVars, raised, handshakeVars, mode, mainVars, ctrlcChan, queue, backlog, wEnv, wRes,
                   parsed, persisted, pcLog, exited, ghostVars>>

\* what insert_aprs_line returns to worker w and leaves in the store
db_result(w, fault) ==
    insert_aprs_line(mode, store, new_v4(wEnv[w]), ParsedLine_of(wEnv[w]), fault)

\* worker, `async_line.line.lock().await` and the insert_aprs_line call
WorkerInsert(w, fault) ==
    /\ ~exited
    /\ pcW[w] = "insert"
    /\ conn = 0
    /\ wRes' = [wRes EXCEPT ![w] = db_result(w, fault).result]
    /\ store' = db_result(w, fault).rows
    /\ handed' = handed \cup {wEnv[w].id}
    /\ insertCount' = insertCount + 1
    /\ failed' = IF db_result(w, fault).result = "Err"
                 THEN failed + 1 ELSE failed
    /\ pcW' = [pcW EXCEPT ![w] = "count"]
    /\ UNCHANGED <<lastInsert, conn, clockVars, decodeVars, schemaVars, raised, handshakeVars, mode, mainVars, ctrlcChan, queue, backlog,
                   wEnv, rxHolder, parsed, persisted, pcLog, exited, goodLines,
                   made, pushed, dequeued, eofRun, faultRun>>

\* SqliteDb::insert_aprs_line statement by statement, for the embedded mode.
\* SqliteLock with the Connection shared without its Mutex
SqliteLock_unguarded(w) ==
    /\ ~exited
    /\ mode = "sqlite"
    /\ pcW[w] = "insert"
    /\ conn' = w
    /\ pcW' = [pcW EXCEPT ![w] = "variant"]
    /\ UNCHANGED <<store, lastInsert, clockVars, decodeVars, schemaVars, raised, handshakeVars, mode, mainVars, ctrlcChan,
                   queue, backlog, wEnv, wRes, rxHolder, parsed, persisted,
                   pcLog, exited, ghostVars>>

\* `conn_handle.lock().unwrap()`: the call waits until the Mutex is free and
\* holds it until it returns
SqliteLock(w) ==
    /\ ~exited
    /\ mode = "sqlite"
    /\ pcW[w] = "insert"
    /\ conn = 0
    /\ conn' = w
    /\ pcW' = [pcW EXCEPT ![w] = "variant"]
    /\ UNCHANGED <<store, lastInsert, clockVars, decodeVars, schemaVars, raised, handshakeVars, mode, mainVars, ctrlcChan,
                   queue, backlog, wEnv, wRes, rxHolder, parsed, persisted,
                   pcLog, exited, ghostVars>>

\* the `match &data.data`: Unknown returns Err, any other variant executes
\* its INSERT and returns Err if that fails; a return drops the guard
SqliteVariant(w, fault) ==
    /\ ~exited
    /\ pcW[w] = "variant"
    /\ LET data == ParsedLine_of(wEnv[w])
           first == execute(store, variant_row("sqlite", new_v4(wEnv[w]), data),
                            fault = "variant")
       IN  IF data.kind = "Unknown" \/ ~first.ok
           THEN /\ wRes' = [wRes EXCEPT ![w] = "Err"]
                /\ store' = store
                /\ conn' = IF conn = w THEN 0 ELSE conn
                /\ pcW' = [pcW EXCEPT ![w] = "count"]
                /\ handed' = handed \cup {wEnv[w].id}
                /\ insertCount' = insertCount + 1
                /\ failed' = failed + 1
           ELSE /\ store' = first.rows
                /\ pcW' = [pcW EXCEPT ![w] = "main_data"]
                /\ UNCHANGED <<wRes, conn, handed, insertCount, failed>>
    /\ UNCHANGED <<lastInsert, clockVars, decodeVars, schemaVars, raised, handshakeVars, mode, mainVars, ctrlcChan, queue,
                   backlog, wEnv, rxHolder, parsed, persisted, pcLog, exited,
                   goodLines, made, pushed, dequeued, eofRun, faultRun>>

\* the INSERT INTO main_data and the return, which drops the guard
SqliteMainData(w, fault) ==
    /\ ~exited
    /\ pcW[w] = "main_data"
    /\ LET second == execute(store, main_data_row(new_v4(wEnv[w]),
                                                  ParsedLine_of(wEnv[w])),
                             fault = "main")
       IN  /\ store' = second.rows
           /\ wRes' = [wRes EXCEPT ![w] = IF second.ok THEN "Ok" ELSE "Err"]
           /\ failed' = IF second.ok THEN failed ELSE failed + 1
    /\ conn' = IF conn = w THEN 0 ELSE conn
    /\ pcW' = [pcW EXCEPT ![w] = "count"]
    /\ handed' = handed \cup {wEnv[w].id}
    /\ insertCount' = insertCount + 1
    /\ UNCHANGED <<lastInsert, clockVars, decodeVars, schemaVars, raised, handshakeVars, mode, mainVars, ctrlcChan, queue,
                   backlog, wEnv, rxHolder, parsed, persisted, pcLog, exited,
                   goodLines, made, pushed, dequeued, eofRun, faultRun>>

\* a worker that calls insert_aprs_line again with the envelope whose insert
\* returned Err, in place of counting it and taking the next one
WorkerCount_retry_failed(w) ==
    /\ ~exited
    /\ pcW[w] = "count"
    /\ IF wRes[w] = "Err"
       THEN /\ pcW' = [pcW EXCEPT ![w] = "insert"]
            /\ UNCHANGED <<persisted, wEnv>>
       ELSE /\ persisted' = counter_after_insert(wRes[w], persisted)
            /\ wEnv' = [wEnv EXCEPT ![w] = NoEnv]
            /\ pcW' = [pcW EXCEPT ![w] = "lock_rx"]
    /\ wRes' = [wRes EXCEPT ![w] = "none"]
    /\ UNCHANGED <<storeVars, raised, handshakeVars, mode, mainVars, ctrlcChan, queue, backlog, rxHolder,
                   parsed, pcLog, exited, ghostVars>>

\* worker, `match db_result`: `counter_job.write().await; *counter += 1` in
\* either arm, then back to the head of the while loop
WorkerCount(w) ==
    /\ ~exited
    /\ pcW[w] = "count"
    /\ persisted' = counter_after_insert(wRes[w], persisted)
    /\ wEnv' = [wEnv EXCEPT ![w] = NoEnv]
    /\ wRes' = [wRes EXCEPT ![w] = "none"]
    /\ pcW' = [pcW EXCEPT ![w] = "lock_rx"]
    /\ UNCHANGED <<storeVars, raised, handshakeVars, mode, mainVars, ctrlcChan, queue, backlog, rxHolder,
                   parsed, pcLog, exited, ghostVars>>

(***************************************************************************)
(* The reporter and the interrupt handler.                                 *)
(***************************************************************************)
\* log_loop, `parse_counter_arc.read().await` (after the sleep, if any)
LogLockParse ==
    /\ ~exited
    /\ pcLog = "idle"
    /\ pcLog' = "hold_parse"
    /\ UNCHANGED <<storeVars, raised, handshakeVars, mode, mainVars, ctrlcChan, queue, backlog, workerVars,
                   parsed, persisted, exited, ghostVars>>

\* a reporter that prints only when main_loop is not about to count
LogPrint_after_count ==
    /\ ~exited
    /\ pcLog = "hold_parse"
    /\ pcMain # "count"
    /\ pcLog' = "idle"
    /\ UNCHANGED <<storeVars, raised, handshakeVars, mode, mainVars, ctrlcChan, queue, backlog, workerVars,
                   parsed, persisted, exited, ghostVars>>

\* log_loop, `insert_counter_arc.read().await`, the println!, both guards
\* dropped, sleep
LogPrint ==
    /\ ~exited
    /\ pcLog = "hold_parse"
    /\ pcLog' = "idle"
    /\ UNCHANGED <<storeVars, raised, handshakeVars, mode, mainVars, ctrlcChan, queue, backlog, workerVars,
                   parsed, persisted, exited, ghostVars>>

\* the ctrlc handler: a new runtime is built, the send of the notice is
\* spawned on it, and the runtime is dropped as the closure returns. Whether
\* the spawned send ran before the drop is a race (`ran`); a send that finds
\* the channel full waits and is dropped with the runtime, and one that
\* finds the receiver gone fails inside the spawned task
SignalHandler(ran) ==
    /\ ~exited
    /\ ctrlcChan' = IF ran /\ ctrlcRxAlive /\ ctrlcChan < CtrlcCapacity
                    THEN ctrlcChan + 1
                    ELSE ctrlcChan
    /\ UNCHANGED <<storeVars, handshakeVars, mode, mainVars, queue, backlog, workerVars, parsed,
                   persisted, pcLog, exited, ghostVars>>

(***************************************************************************)
(* Callsign variants: the same callsign in another case or with another    *)
(* "-SSID" suffix (the inputs the passcode must not tell apart).           *)
(***************************************************************************)
\* the index of the first '-' of s, or Len(s) + 1
FirstDash(s) ==
    IF \E i \in 1..Len(s) : s[i] = DashChar
    THEN CHOOSE i \in 1..Len(s) :
            /\ s[i] = DashChar
            /\ \A j \in 1..(i - 1) : s[j] # DashChar
    ELSE Len(s) + 1

ToggleCase(c) ==
    IF c >= 97 /\ c <= 122 THEN c - 32
    ELSE IF c >= 65 /\ c <= 90 THEN c + 32
    ELSE c

\* the strings over a set of characters, up to a length
StringsUpTo(chars, n) == UNION {[1..k -> chars] : k \in 0..n}

\* the variant's i-th character changes case
VariantToggleCase(i) ==
    /\ pcMain = "connect"
    /\ i \in 1..Len(variant)
    /\ ToggleCase(variant[i]) # variant[i]
    /\ variant' = [variant EXCEPT ![i] = ToggleCase(variant[i])]
    /\ UNCHANGED <<storeVars, raised, callsign, wire, mode, mainVars, ctrlcChan, queue, backlog,
                   workerVars, parsed, persisted, pcLog, exited, ghostVars>>

\* the variant's suffix is replaced by "-" and another SSID
VariantSetSsid(ssid) ==
    /\ pcMain = "connect"
    /\ variant' = SubSeq(variant, 1, FirstDash(variant) - 1) \o <<DashChar>> \o ssid
    /\ variant' # variant
    /\ UNCHANGED <<storeVars, raised, callsign, wire, mode, mainVars, ctrlcChan, queue, backlog,
                   workerVars, parsed, persisted, pcLog, exited, ghostVars>>

\* the variant's suffix is dropped
VariantDropSsid ==
    /\ pcMain = "connect"
    /\ FirstDash(variant) <= Len(variant)
    /\ variant' = SubSeq(variant, 1, FirstDash(variant) - 1)
    /\ UNCHANGED <<storeVars, raised, callsign, wire, mode, mainVars, ctrlcChan, queue, backlog,
                   workerVars, parsed, persisted, pcLog, exited, ghostVars>>

(***************************************************************************)
(* Specifications.                                                         *)
(***************************************************************************)
\* the date of the runs of the pipeline specifications, and no timestamp
\* rendered on its own yet
PipelineNow == [year |-> 2026, month |-> 11, day |-> 3]
NoRender == [timestamp |-> NoneTimestamp, fmt_string |-> EmptyText,
             mariadb_string |-> EmptyText]

NoPacket == [from |-> <<>>, via |-> <<>>,
             data |-> AprsData("none", <<>>, NoneTimestamp, <<>>, <<>>, <<>>,
                               FALSE, "")]
NoEnvelope == [from |-> <<>>, via |-> <<>>, kind |-> "none", fields |-> NoFields,
               timestamp |-> NoneTimestamp, msg_id_some |-> FALSE]

NoInsert == [called |-> FALSE, backend |-> "none", before |-> {},
             record_uuid |-> 0, data |-> ParsedLine_of(NoEnv),
             fault |-> "none", result |-> "none"]

InitPipeline ==
    /\ wire = <<>>
    /\ pcMain = "connect"
    /\ mainEnv = NoEnv
    /\ ctrlcChan = 0
    /\ error_count = 0
    /\ lastRead = NoRead
    /\ queue = <<>>
    /\ txOpen = TRUE
    /\ pcW = [w \in Workers |-> "unspawned"]
    /\ wEnv = [w \in Workers |-> NoEnv]
    /\ wRes = [w \in Workers |-> "none"]
    /\ rxHolder = 0
    /\ parsed = 0
    /\ persisted = 0
    /\ pcLog = "unspawned"
    /\ finalSnapshot = <<>>
    /\ exited = FALSE
    /\ goodLines = 0
    /\ made = 0
    /\ pushed = 0
    /\ dequeued = 0
    /\ handed = {}
    /\ insertCount = 0
    /\ eofRun = 0
    /\ faultRun = 0
    /\ failed = 0
    /\ lastInsert = NoInsert
    /\ conn = 0
    /\ backlog = 0
    /\ raised = 0
    /\ packet = NoPacket
    /\ envelope = NoEnvelope
    /\ starts = 0

Init ==
    /\ callsign = PipelineCallsign
    /\ variant = callsign
    /\ mode \in {"sqlite", "mariadb"}
    /\ store = {}
    /\ schema = CreatedSchema
    /\ now = PipelineNow
    /\ rendered = NoRender
    /\ InitPipeline

ConnectOutcomes == {"ok", "lookup_err", "connect_err", "send_err"}

\* the steps of the main task but the read of the stream
MainSteps ==
    \/ \E outcome \in ConnectOutcomes : MainConnect(outcome)
    \/ \E outcome \in SetupOutcomes, create_tables_flag \in BOOLEAN,
          fault \in SchemaFaults, autocommit \in BOOLEAN :
            MainSetup(outcome, create_tables_flag, fault, autocommit)
    \/ MainPollEmpty
    \/ MainPollCtrlC
    \/ MainSend
    \/ MainCount
    \/ MainJoin
    \/ MainFinal
    \/ ProcessExit

\* the database failures of the pipeline specifications: a call that
\* fails does so at its first statement
PipelineFaults == {"none", "variant"}

\* the steps of the workers but the connect of the networked mode
WorkerSteps ==
    \/ \E w \in Workers : WorkerLockRx(w)
    \/ \E w \in Workers : WorkerRecvSome(w)
    \/ \E w \in Workers : WorkerRecvNone(w)
    \/ \E w \in Workers, fault \in PipelineFaults : WorkerInsert(w, fault)
    \/ \E w \in Workers : WorkerCount(w)

LogSteps ==
    \/ LogLockParse
    \/ LogPrint

\* the variants the lines of the pipeline specifications decode to: one that
\* has a table and the one that has none
StreamKinds == {"Status", "Unknown", "DecodeError"}

\* what the stream delivers in Spec: a connection that stays open (no end of
\* stream) and carries data lines within the length limit, at most MaxLines
\* of them good
StreamOffers(raw) ==
    /\ raw.kind \in StreamKinds
    /\ IsGoodLine(raw) => goodLines < MaxLines
    /\ raw.tag # "eof"
    /\ IsFramedDataLine(raw)
    /\ raw.len = MaxLineLength

\* the variants the lines of the fault specification decode to
FaultStreamKinds == {"Status", "DecodeError"}

\* what the stream delivers in SpecFault: at most FaultMaxLines good lines,
\* and end of stream without limit; a line that does not decode comes before
\* a run of end-of-stream results or when the run is MaxErrorCount long
FaultStreamOffers(raw) ==
    /\ raw.kind \in FaultStreamKinds
    /\ IsGoodLine(raw) => goodLines < FaultMaxLines
    /\ IsBadLine(raw) => error_count \in {0, MaxErrorCount}

\* the pipeline in either mode, with interrupts and database failures, on a
\* connection that stays open
Next ==
    \/ MainSteps
    \/ WorkerSteps
    \/ \E w \in Workers, ok \in BOOLEAN : WorkerConnect(w, ok)
    \/ LogSteps
    \/ \E ran \in BOOLEAN : SignalHandler(ran) /\ UNCHANGED raised
    \/ \E raw \in RawItems : StreamOffers(raw) /\ MainReadLine(raw)

Spec == Init /\ [][Next]_vars

\* the embedded-mode pipeline on a stream with runs of end-of-stream results
\* of any length, with no interrupt raised
InitFault ==
    /\ callsign = PipelineCallsign
    /\ variant = callsign
    /\ mode = "sqlite"
    /\ store = {}
    /\ schema = CreatedSchema
    /\ now = PipelineNow
    /\ rendered = NoRender
    /\ InitPipeline

NextFault ==
    \/ \E outcome \in ConnectOutcomes : MainConnect(outcome)
    \/ \E outcome \in SetupOutcomes, create_tables_flag \in BOOLEAN,
          fault \in SchemaFaults, autocommit \in BOOLEAN :
            MainSetup(outcome, create_tables_flag, fault, autocommit)
    \/ MainPollEmpty
    \/ MainSend
    \/ MainCount
    \/ ProcessExit
    \/ WorkerSteps
    \/ LogSteps
    \/ \E raw \in RawItems : FaultStreamOffers(raw) /\ MainReadLine(raw)

SpecFault == InitFault /\ [][NextFault]_vars

\* the main task and the interrupt handler of the embedded mode, each
\* interrupt counted, on a stream with end-of-stream results and lines that
\* do not decode. The workers and the reporter touch neither the signal
\* channel nor the position of the main task and take no step here, so the
\* main task ends at the join
SignalStreamOffers(raw) ==
    /\ raw.kind \in FaultStreamKinds
    /\ IsGoodLine(raw) => goodLines < FaultMaxLines
    /\ raw.tag = "eof" => error_count < MaxEofRun
    /\ raw.tag # "eof" => (IsFramedDataLine(raw) /\ raw.len = MaxLineLength)

\* the main read loop is running: main_loop has been entered and has not
\* left its loop
MainLoopRunning == pcMain \in {"loop_top", "read", "send", "count"}

NextSignal ==
    \/ /\ \/ MainConnect("ok")
          \/ MainSetup("ok", FALSE, 0, TRUE)
          \/ MainPollEmpty
          \/ MainPollCtrlC
          \/ MainSend
          \/ MainCount
          \/ \E raw \in RawItems : SignalStreamOffers(raw) /\ MainReadLine(raw)
       /\ UNCHANGED raised
    \/ \E ran \in BOOLEAN :
          /\ raised < MaxSignals
          /\ SignalHandler(ran)
          /\ raised' = raised + 1

SpecSignal == InitFault /\ [][NextSignal]_vars

\* the embedded-mode pipeline with insert_aprs_line taken statement by
\* statement, on an open connection that delivers Status lines, with no
\* interrupt
LockOffers(raw) ==
    /\ raw.kind = "Status"
    /\ IsGoodLine(raw)
    /\ raw.len = MaxLineLength
    /\ goodLines < MaxLines

NextLock ==
    \/ MainConnect("ok")
    \/ MainSetup("ok", FALSE, 0, TRUE)
    \/ MainPollEmpty
    \/ \E raw \in RawItems : LockOffers(raw) /\ MainReadLine(raw)
    \/ MainSend
    \/ MainCount
    \/ \E w \in Workers : WorkerLockRx(w)
    \/ \E w \in Workers : WorkerRecvSome(w)
    \/ \E w \in Workers : SqliteLock(w)
    \/ \E w \in Workers, fault \in Faults : SqliteVariant(w, fault)
    \/ \E w \in Workers, fault \in Faults : SqliteMainData(w, fault)
    \/ \E w \in Workers : WorkerCount(w)

SpecLock == InitFault /\ [][NextLock]_vars

\* the same pipeline with the reporter, interrupts and the shutdown: every
\* task that takes a lock is there
NextWait ==
    \/ NextLock
    \/ LogSteps
    \/ \E ran \in BOOLEAN : SignalHandler(ran) /\ UNCHANGED raised
    \/ MainPollCtrlC
    \/ \E w \in Workers : WorkerRecvNone(w)
    \/ MainJoin
    \/ MainFinal
    \/ ProcessExit

SpecWait == InitFault /\ [][NextWait]_vars

\* fmt_string and mariadb_string on their own: every timestamp of
\* RenderTimestamps on every date of RenderDates. The years are a common
\* and a leap year, the days of the year include the last of January, the
\* first of February and the first past the end of a common year, and each
\* field of a time has a value in range and one out of range (seconds stop
\* short of 60)
RenderDates ==
    {[year |-> y_, month |-> m_, day |-> d_] :
        y_ \in {2026, 2028}, m_ \in {1, 11}, d_ \in {3}}
RenderTimestamps ==
    {DDHHMM(x_, y_, z_) : x_ \in {0, 1, 15, 31, 32, 366}, y_ \in {7, 24}, z_ \in {5, 61}}
    \cup {HHMMSS(x_, y_, z_) : x_ \in {7, 24}, y_ \in {5, 61}, z_ \in {9, 61}}
    \cup {Unsupported}

\* a call of fmt_string and one of mariadb_string on the same value
RenderTimestamp(y) ==
    /\ rendered' = [timestamp |-> y, fmt_string |-> fmt_string(y),
                    mariadb_string |-> mariadb_string(y)]
    /\ UNCHANGED <<now, store, lastInsert, conn, decodeVars, schemaVars,
                   raised, handshakeVars, mode, mainVars, ctrlcChan, queue, backlog, workerVars, parsed,
                   persisted, pcLog, exited, ghostVars>>

InitRender ==
    /\ callsign = PipelineCallsign
    /\ variant = callsign
    /\ mode = "sqlite"
    /\ store = {}
    /\ schema = CreatedSchema
    /\ now \in RenderDates
    /\ rendered = NoRender
    /\ InitPipeline

NextRender == \E y \in RenderTimestamps : RenderTimestamp(y)

SpecRender == InitRender /\ [][NextRender]_vars

\* the handshake alone, for every callsign up to MaxCallLen characters and
\* its variants
InitHandshake ==
    /\ callsign \in StringsUpTo(CallChars, MaxCallLen)
    /\ variant = callsign
    /\ mode = "sqlite"
    /\ store = {}
    /\ schema = CreatedSchema
    /\ now = PipelineNow
    /\ rendered = NoRender
    /\ InitPipeline

NextHandshake ==
    \/ \E outcome \in ConnectOutcomes : MainConnect(outcome)
    \/ \E i \in 1..(MaxCallLen + MaxSsidLen + 1) : VariantToggleCase(i)
    \/ \E ssid \in StringsUpTo(SsidChars, MaxSsidLen) : VariantSetSsid(ssid)
    \/ VariantDropSsid

SpecHandshake == InitHandshake /\ [][NextHandshake]_vars

\* insert_aprs_line on its own, in either backend, on a store that is empty
\* or holds the rows of an earlier run, for every line of StoreLines, with
\* an identifier that may be in the store already and with every fault
StoreUuids == 1..2

\* "K0HAX" via "TCPIP*", Status, to "APRS", comment "Test status comment"
StrK0HAX == <<75, 48, 72, 65, 88>>
StrTcpip == <<84, 67, 80, 73, 80, 42>>
StrTestStatusComment ==
    <<84, 101, 115, 116, 32, 115, 116, 97, 116, 117, 115, 32, 99, 111, 109, 109, 101, 110, 116>>
TestStatusLine ==
    [from |-> StrK0HAX, via |-> <<StrTcpip>>, kind |-> "Status",
     fields |-> Fields(StrAPRS, StrTestStatusComment, ""),
     timestamp |-> NoneTimestamp, msg_id_some |-> FALSE]

StoreLines ==
    {d \in [from : {PipelineFrom}, via : {<<>>, PipelineVia}, kind : Kinds,
            fields : {FieldsOf(k) : k \in Kinds},
            timestamp : {NoneTimestamp} \cup SomeTimestamps,
            msg_id_some : BOOLEAN] :
        /\ d.fields = FieldsOf(d.kind)
        /\ d.timestamp.some => d.kind \in {"Position", "Status"}
        /\ d.msg_id_some => d.kind = "Message"}
    \cup {TestStatusLine}

\* the rows an earlier run left: one Status line stored under identifier 1
EarlierRun(backend) ==
    insert_aprs_line(backend, {}, 1, ParsedLine_of([id |-> 1, kind |-> "Status"]),
                     "none").rows

StoreInsert(data, record_uuid, fault) ==
    /\ pcMain = "connect"
    /\ insertCount < MaxInserts
    /\ LET r == insert_aprs_line(mode, store, record_uuid, data, fault)
       IN  /\ store' = r.rows
           /\ lastInsert' = [called |-> TRUE, backend |-> mode, before |-> store,
                             record_uuid |-> record_uuid, data |-> data,
                             fault |-> fault, result |-> r.result]
           /\ failed' = IF r.result = "Err" THEN failed + 1 ELSE failed
    /\ insertCount' = insertCount + 1
    /\ UNCHANGED <<conn, clockVars, decodeVars, schemaVars, raised, handshakeVars, mode, mainVars, ctrlcChan, queue, backlog, workerVars,
                   parsed, persisted, pcLog, exited, goodLines, made, pushed,
                   dequeued, handed, eofRun, faultRun>>

InitStore ==
    /\ callsign = PipelineCallsign
    /\ variant = callsign
    /\ mode \in {"sqlite", "mariadb"}
    /\ store \in {{}, EarlierRun(mode)}
    /\ schema = CreatedSchema
    /\ now = PipelineNow
    /\ rendered = NoRender
    /\ InitPipeline

NextStore ==
    \E data \in StoreLines, record_uuid \in StoreUuids, fault \in Faults :
        StoreInsert(data, record_uuid, fault)

SpecStore == InitStore /\ [][NextStore]_vars

\* the start of the program, over and over, on a database that stays: main
\* connects and sets the store up, the program is ended and started again.
\* Between two runs the test line may have been stored in the tables, under
\* an identifier of its own
Restart ==
    /\ ~exited
    /\ pcMain \in {"loop_top", "setup_failed"}
    /\ starts < MaxStarts
    /\ starts' = starts + 1
    /\ wire' = <<>>
    /\ pcMain' = "connect"
    /\ txOpen' = TRUE
    /\ pcW' = [w \in Workers |-> "unspawned"]
    /\ pcLog' = "unspawned"
    /\ UNCHANGED <<store, schema, lastInsert, conn, clockVars, decodeVars,
                   raised, callsign, variant, mode, mainEnv, ctrlcChan,
                   error_count, lastRead, finalSnapshot, queue, backlog, wEnv,
                   wRes, rxHolder, parsed, persisted, exited, ghostVars>>

InitSchema ==
    /\ callsign = PipelineCallsign
    /\ variant = callsign
    /\ mode \in {"sqlite", "mariadb"}
    /\ store = {}
    /\ schema \in {EmptySchema, CreatedSchema}
    /\ now = PipelineNow
    /\ rendered = NoRender
    /\ InitPipeline

NextSchema ==
    \/ MainConnect("ok")
    \/ \E outcome \in SetupOutcomes, create_tables_flag \in BOOLEAN,
          fault \in SchemaFaults, autocommit \in BOOLEAN :
            MainSetup(outcome, create_tables_flag, fault, autocommit)
    \/ Restart
    \/ /\ schema = CreatedSchema
       /\ StoreInsert(TestStatusLine, insertCount + 1, "none")

SpecSchema == InitSchema /\ [][NextSchema]_vars

\* parse_line and insert_aprs_line on their own: one packet is decoded into
\* an envelope, and the envelope is stored in an empty database that does
\* not fail.  The relay paths have up to MaxVia elements out of "W", "W*"
\* (heard), "T" and the q-construct "q"; the byte sequences are "c", the
\* byte 0xFF and "c" followed by 0xFE
DecodeVias ==
    {ViaCallsign(<<87>>, FALSE), ViaCallsign(<<87>>, TRUE),
     ViaCallsign(<<84>>, FALSE), ViaQConstruct(<<113>>)}
DecodePaths == UNION {[1..n -> DecodeVias] : n \in 0..MaxVia}
DecodeBytes == {StrC, <<255>>, <<99, 254>>}
DecodeData ==
    {AprsData("Status", StrAPRS, y, c, <<>>, <<>>, FALSE, "") :
        y \in {NoneTimestamp, DDHHMM(15, 7, 5)}, c \in DecodeBytes}
    \cup {AprsData("Position", StrAPRS, NoneTimestamp, c, <<>>, <<>>, FALSE,
                    "position") : c \in DecodeBytes}
    \cup {AprsData("MicE", <<>>, NoneTimestamp, c, <<>>, <<>>, FALSE, "mic_e") :
            c \in DecodeBytes}
    \cup {AprsData("Message", StrAPRS, NoneTimestamp, <<>>, a, t, i, "") :
            a \in DecodeBytes, t \in DecodeBytes, i \in BOOLEAN}
    \cup {AprsData("Unknown", <<>>, NoneTimestamp, <<>>, <<>>, <<>>, FALSE, "")}
Packets == [from : {StrK0HAX}, via : DecodePaths, data : DecodeData]

Decode(result) ==
    /\ pcMain = "connect"
    /\ envelope = NoEnvelope
    /\ packet' = result
    /\ envelope' = ParsedLine_from(result)
    /\ UNCHANGED <<store, lastInsert, conn, clockVars, schemaVars, raised,
                   handshakeVars, mode, mainVars, ctrlcChan, queue, backlog, workerVars,
                   parsed, persisted, pcLog, exited, ghostVars>>

StoreDecoded ==
    /\ envelope # NoEnvelope
    /\ StoreInsert(envelope, 1, "none")

InitDecode ==
    /\ callsign = PipelineCallsign
    /\ variant = callsign
    /\ mode \in {"sqlite", "mariadb"}
    /\ store = {}
    /\ schema = CreatedSchema
    /\ now = PipelineNow
    /\ rendered = NoRender
    /\ InitPipeline

NextDecode ==
    \/ \E result \in Packets : Decode(result)
    \/ StoreDecoded

SpecDecode == InitDecode /\ [][NextDecode]_vars

\* the embedded-mode pipeline from the state it is in when QueueCapacity - 1
\* Status lines have been read, pushed and counted and no worker has taken
\* its first envelope yet; the stream then delivers MaxBurst more lines and
\* the workers dequeue MaxBurst envelopes
InitBackpressure ==
    /\ callsign = PipelineCallsign
    /\ variant = callsign
    /\ wire = LinesCodec_encode(handshake_line(Handshake_new(callsign)))
    /\ mode = "sqlite"
    /\ pcMain = "loop_top"
    /\ mainEnv = NoEnv
    /\ ctrlcChan = 0
    /\ error_count = 0
    /\ lastRead = [tag |-> "line", first |-> <<75>>, len |-> MaxLineLength,
                   outcome |-> "Ok", decoded |-> TRUE,
                   parsedBefore |-> Backlog - 1, pushedBefore |-> Backlog - 1,
                   madeBefore |-> Backlog - 1]
    /\ queue = <<>>
    /\ backlog = Backlog
    /\ raised = 0
    /\ packet = NoPacket
    /\ envelope = NoEnvelope
    /\ starts = 0
    /\ txOpen = TRUE
    /\ pcW = [w \in Workers |-> "lock_rx"]
    /\ wEnv = [w \in Workers |-> NoEnv]
    /\ wRes = [w \in Workers |-> "none"]
    /\ rxHolder = 0
    /\ parsed = Backlog
    /\ persisted = 0
    /\ pcLog = "idle"
    /\ finalSnapshot = <<>>
    /\ exited = FALSE
    /\ goodLines = Backlog
    /\ made = Backlog
    /\ pushed = Backlog
    /\ dequeued = 0
    /\ handed = {}
    /\ insertCount = 0
    /\ eofRun = 0
    /\ faultRun = 0
    /\ failed = 0
    /\ store = {}
    /\ schema = CreatedSchema
    /\ lastInsert = NoInsert
    /\ conn = 0
    /\ now = PipelineNow
    /\ rendered = NoRender

BackpressureOffers(raw) ==
    /\ raw.kind = "Status"
    /\ IsGoodLine(raw)
    /\ raw.len = MaxLineLength
    /\ goodLines < Backlog + MaxBurst

NextBackpressure ==
    \/ MainPollEmpty
    \/ \E raw \in RawItems : BackpressureOffers(raw) /\ MainReadLine(raw)
    \/ MainSend
    \/ MainCount
    \/ \E w \in Workers : WorkerLockRx(w)
    \/ \E w \in Workers : dequeued < MaxBurst /\ WorkerRecvSome(w)
    \/ \E w \in Workers : WorkerInsert(w, "none")
    \/ \E w \in Workers : WorkerCount(w)

SpecBackpressure == InitBackpressure /\ [][NextBackpressure]_vars

(***************************************************************************)
(* Properties of the shutdown path and of the counters.                    *)
(***************************************************************************)
\* the workers that hold an envelope they have not counted yet
BetweenDequeueAndIncrement == {w \in Workers : pcW[w] \in {"insert", "count"}}

\* C1: once main has taken the interrupt notice and the process has exited,
\* the producer side is closed, the queue is empty and every envelope that
\* was pushed has been given to insert_aprs_line, in either mode
C1_ShutdownDrains ==
    (exited /\ pcMain = "returned") =>
        /\ ~txOpen
        /\ queue = <<>>
        /\ Cardinality(handed) = pushed

\* C2: the final snapshot is taken only when every worker has ended, and its
\* persisted value is the number of envelopes dequeued, in either mode
C2_FinalSnapshotAfterJoin ==
    finalSnapshot # <<>> =>
        /\ \A w \in Workers : pcW[w] \in {"done", "dead"}
        /\ finalSnapshot[2] = dequeued

\* C3: persisted counts every dequeued envelope once, whatever the insert
\* returned: it is short of the number dequeued by exactly the workers that
\* are between dequeue and increment, so the two are equal when there is none
C3_PersistedCountsDequeued ==
    /\ persisted + Cardinality(BetweenDequeueAndIncrement) = dequeued
    /\ BetweenDequeueAndIncrement = {} => persisted = dequeued
    /\ failed <= insertCount /\ insertCount <= dequeued

\* C3 happens: two envelopes dequeued and counted, one of them after its
\* insert returned an error, and no worker between dequeue and increment
C3_Witness ==
    /\ dequeued = 2
    /\ persisted = 2
    /\ failed = 1
    /\ BetweenDequeueAndIncrement = {}

\* C4: parsed counts the lines that are framed, no comment and decodable,
\* once each (the one main_loop is sending is counted next), and no other
\* outcome of read_line; the result of the insert plays no part
C4_ParsedCountsGoodLines ==
    /\ parsed + (IF pcMain \in {"send", "count"} THEN 1 ELSE 0) = goodLines
    /\ lastRead.outcome \in {"CommentLine", "DecodeError", "FramingError",
                             "ConnectionClosed"}
          => parsed = lastRead.parsedBefore

\* C4 happens: a line was counted, its insert failed, and the read after it
\* ended in ConnectionClosed without a count
C4_Witness ==
    /\ parsed = 1
    /\ failed = 1
    /\ persisted = 1
    /\ lastRead.outcome = "ConnectionClosed"

\* C5: a line within the length limit whose first character is '#' gives
\* CommentLine with no call of parse_line, no envelope, nothing pushed and
\* parsed as it was
C5_CommentLineSkipped ==
    (lastRead.tag = "line" /\ lastRead.first = <<HashChar>>
        /\ lastRead.len <= MaxLineLength) =>
        /\ lastRead.outcome = "CommentLine"
        /\ ~lastRead.decoded
        /\ made = lastRead.madeBefore
        /\ pushed = lastRead.pushedBefore
        /\ parsed = lastRead.parsedBefore
        /\ pcMain = "loop_top"

\* C5 happens: a comment line was read after a data line had been counted
C5_Witness ==
    /\ lastRead.first = <<HashChar>>
    /\ lastRead.outcome = "CommentLine"
    /\ parsed = 1
    /\ pushed = 1

\* C6: a line longer than MaxLineLength gives a framing error with no call of
\* parse_line, no envelope, nothing pushed or handed to storage and parsed as
\* it was, and main_loop is back at the head of its loop
C6_OverLengthRejected ==
    (lastRead.tag = "line" /\ lastRead.len > MaxLineLength) =>
        /\ lastRead.outcome = "FramingError"
        /\ ~lastRead.decoded
        /\ made = lastRead.madeBefore
        /\ pushed = lastRead.pushedBefore
        /\ parsed = lastRead.parsedBefore
        /\ Cardinality(handed) <= lastRead.pushedBefore
        /\ pcMain = "loop_top"
        /\ ~exited

\* C6 happens: an over-length data line was read after a data line had been
\* counted
C6_Witness ==
    /\ lastRead.len = MaxLineLength + 1
    /\ lastRead.first # <<HashChar>>
    /\ lastRead.outcome = "FramingError"
    /\ parsed = 1

(***************************************************************************)
(* The end-of-stream threshold.                                            *)
(***************************************************************************)
\* main panicked in read_line (and not in AprsClient::new)
FatalEndOfStream == pcMain = "panicked" /\ wire # <<>>

BitOf(n, i) == (n \div (2 ^ i)) % 2

\* exclusive or, bit by bit, of two 16-bit values
RECURSIVE RefXorFrom(_, _, _)
RefXorFrom(a, b, i) ==
    IF i > 15 THEN 0
    ELSE (IF BitOf(a, i) # BitOf(b, i) THEN 2 ^ i ELSE 0) + RefXorFrom(a, b, i + 1)

\* the callsign cut at its first '-' and uppercased
RefBase(s) ==
    LET cut == SubSeq(s, 1, FirstDash(s) - 1)
    IN  [i \in 1..Len(cut) |->
            IF cut[i] >= 97 /\ cut[i] <= 122 THEN cut[i] - 32 ELSE cut[i]]

\* the accumulator after the first k characters of b: 0x73E2, then character
\* 1, 3, 5, .. as (char << 8) and character 2, 4, 6, .. as char, modulo 2^16
RECURSIVE RefAccumulator(_, _)
RefAccumulator(b, k) ==
    IF k = 0 THEN 7 * 4096 + 3 * 256 + 14 * 16 + 2
    ELSE RefXorFrom(RefAccumulator(b, k - 1),
                    IF k % 2 = 1 THEN (b[k] * 256) % (2 ^ 16) ELSE b[k] % (2 ^ 16),
                    0)

\* the number a string of decimal digits denotes
RECURSIVE ParseDecimal(_)
ParseDecimal(d) ==
    IF d = <<>> THEN 0
    ELSE 10 * ParseDecimal(SubSeq(d, 1, Len(d) - 1)) + (d[Len(d)] - 48)

\* d is the decimal string of n: digits only, no leading zero
IsDecimalOf(d, n) ==
    /\ Len(d) >= 1
    /\ \A i \in 1..Len(d) : d[i] >= 48 /\ d[i] <= 57
    /\ Len(d) > 1 => d[1] # 48
    /\ ParseDecimal(d) = n

\* "N0CALL", "n0call-9" and "13023"
StrN0CALL == <<78, 48, 67, 65, 76, 76>>
StrN0CallSsid == <<110, 48, 99, 97, 108, 108, 45, 57>>
Str13023 == <<49, 51, 48, 50, 51>>

\* C8: generate_passcode gives the decimal string of the reference
\* accumulator, for the callsign, for its variants, and for "N0CALL"
C8_PasscodeIsReference ==
    /\ IsDecimalOf(generate_passcode(callsign),
                   RefAccumulator(RefBase(callsign), Len(RefBase(callsign))))
    /\ IsDecimalOf(generate_passcode(variant),
                   RefAccumulator(RefBase(variant), Len(RefBase(variant))))
    /\ generate_passcode(StrN0CALL) = Str13023

\* C8 happens: the login line was sent for "n0-", a callsign with a lower
\* case letter, two characters to alternate over and a '-' to be cut at
C8_Witness ==
    /\ pcMain = "setup"
    /\ callsign = <<110, 48, 45>>
    /\ SubSeq(wire, Len(StrUser) + Len(callsign) + Len(StrPass) + 1,
              Len(StrUser) + Len(callsign) + Len(StrPass)
                + Len(generate_passcode(callsign)))
          = generate_passcode(callsign)

\* C9: a callsign and a variant of it that differs in letter case or in the
\* "-SSID" suffix have the same passcode, as have "N0CALL" and "n0call-9"
C9_PasscodeOfVariant ==
    /\ generate_passcode(variant) = generate_passcode(callsign)
    /\ generate_passcode(StrN0CallSsid) = generate_passcode(StrN0CALL)

\* C9 happens: "N0" against "n0-a", another case and an SSID added
C9_Witness ==
    /\ callsign = <<78, 48>>
    /\ variant = <<110, 48, 45, 97>>

\* C10: what the client has written once connected is the login line and
\* nothing else: "user ", the callsign, " pass ", the passcode, CR LF
C10_LoginLineBytes ==
    wire # <<>> =>
        wire = StrUser \o callsign \o StrPass \o generate_passcode(callsign)
                 \o StrCrLf

(***************************************************************************)
(* The store.                                                              *)
(***************************************************************************)
\* the table and the type code of a variant
RefTable(kind) ==
    CASE kind = "Message" -> "messages"
      [] kind = "Position" -> "position"
      [] kind = "Status" -> "status"
      [] kind = "MicE" -> "MicE"
      [] OTHER -> "none"

RefTypeCode(kind) ==
    CASE kind = "Message" -> 1
      [] kind = "Position" -> 2
      [] kind = "Status" -> 3
      [] kind = "MicE" -> 4
      [] OTHER -> 0

\* the first k relays of a path, joined by ", "
RECURSIVE RefJoin(_, _)
RefJoin(via, k) ==
    IF k = 0 THEN <<>>
    ELSE IF k = 1 THEN via[1]
    ELSE RefJoin(via, k - 1) \o <<44, 32>> \o via[k]

\* the rows the last call added
GainedRows == store \ lastInsert.before

\* C11: a call of insert_aprs_line that returns Ok has added exactly one row
\* to the table of the line's variant and exactly one to main_data and has
\* removed none; both carry the identifier generated for the call, which no
\* row of those tables had, and the main_data row holds the line's `from`,
\* its relays joined by ", " and the type code of the variant
C11_SuccessAddsTwoRows ==
    (lastInsert.called /\ lastInsert.result = "Ok") =>
        LET d == lastInsert.data
        IN  /\ lastInsert.before \subseteq store
            /\ Cardinality(GainedRows) = 2
            /\ Cardinality({r \in GainedRows : r.table = RefTable(d.kind)}) = 1
            /\ Cardinality({r \in GainedRows : r.table = "main_data"}) = 1
            /\ \A r \in GainedRows : r.id = lastInsert.record_uuid
            /\ \A r \in lastInsert.before :
                  r.table \in {RefTable(d.kind), "main_data"}
                     => r.id # lastInsert.record_uuid
            /\ \A r \in GainedRows :
                  r.table = "main_data" =>
                     /\ r.from = d.from
                     /\ r.via = RefJoin(d.via, Len(d.via))
                     /\ r.type = RefTypeCode(d.kind)

\* C11 happens: a Message with two relays was stored in a database that
\* held the rows of an earlier run
C11_Witness ==
    /\ lastInsert.called
    /\ lastInsert.result = "Ok"
    /\ lastInsert.data.kind = "Message"
    /\ Len(lastInsert.data.via) = 2
    /\ lastInsert.before # {}
    /\ Cardinality(store) = 4

\* C12: a worker's insert_aprs_line call for an Unknown envelope returns Err
\* and leaves the store as it was, in either mode; the worker then adds one
\* to persisted and goes back to the head of its loop
C12_UnknownIsErrorAndCounted ==
    [][\A w \in Workers :
          /\ (pcW[w] = "insert" /\ wEnv[w].kind = "Unknown" /\ pcW'[w] # "insert")
                => /\ store' = store
                   /\ wRes'[w] = "Err"
                   /\ pcW'[w] = "count"
          /\ (pcW[w] = "count" /\ wEnv[w].kind = "Unknown" /\ pcW'[w] # "count")
                => /\ persisted' = persisted + 1
                   /\ store' = store
                   /\ pcW'[w] = "lock_rx"]_vars

\* C12 happens: the second envelope, an Unknown, has been through
\* insert_aprs_line with Err and no row written, while the first one is
\* stored and counted
C12_Witness ==
    /\ persisted = 1
    /\ Cardinality(store) = 2
    /\ \A r \in store : r.id = 1
    /\ \E w \in Workers :
          /\ pcW[w] = "count"
          /\ wEnv[w] = [id |-> 2, kind |-> "Unknown"]
          /\ wRes[w] = "Err"

\* the rows with the time-string format left aside
Logical(rows) ==
    {[r EXCEPT !.timestamp =
         IF @.format \in {"%+", "%Y-%m-%d %H:%M:%S%.6f"}
         THEN [@ EXCEPT !.format = "time"]
         ELSE @] : r \in rows}

\* C19: on the same store, line, identifier and fault the two backends
\* return the same result and leave the same rows, NULLs included, the
\* time-string format aside
C19_BackendsInterchangeable ==
    lastInsert.called =>
        LET a == insert_aprs_line("sqlite", lastInsert.before,
                                  lastInsert.record_uuid, lastInsert.data,
                                  lastInsert.fault)
            b == insert_aprs_line("mariadb", lastInsert.before,
                                  lastInsert.record_uuid, lastInsert.data,
                                  lastInsert.fault)
        IN  /\ a.result = b.result
            /\ Logical(a.rows) = Logical(b.rows)

(***************************************************************************)
(* The queue.                                                              *)
(***************************************************************************)
\* C13: the queue never holds more than QueueCapacity envelopes; while it is
\* full main_loop stays in send with its envelope, and every envelope made
\* is in the queue's count of pushes or is the one main_loop is sending:
\* none is dropped because the queue is full
C13_Backpressure ==
    /\ [](/\ QueueLen <= QueueCapacity
          /\ made = pushed + (IF pcMain = "send" THEN 1 ELSE 0))
    /\ [][(pcMain = "send" /\ QueueLen = QueueCapacity)
             => (pcMain' = "send" /\ mainEnv' = mainEnv /\ pushed' = pushed)]_vars

\* C13 happens: main_loop found the queue full, a worker dequeued one
\* envelope, the push went through and the queue is full again
C13_Witness ==
    /\ QueueLen = QueueCapacity
    /\ dequeued = 1
    /\ pushed = QueueCapacity + 1
    /\ queue = <<[id |-> QueueCapacity, kind |-> "Status"],
                 [id |-> QueueCapacity + 1, kind |-> "Status"]>>

(***************************************************************************)
(* C14.  One worker per envelope, one insert per envelope.                 *)
(***************************************************************************)
\* the ids of the envelopes spelled out in the queue
QueueIds == {queue[i].id : i \in 1..Len(queue)}

\* the workers that hold an envelope
Holders == {w \in Workers : wEnv[w] # NoEnv}

\* C14: every envelope pushed to the queue is dequeued by at most one worker
\* and handed to insert_aprs_line at most once; an envelope whose insert
\* failed is not handed over again and not put back on the queue.  The
\* envelopes of the queue have distinct ids, no two workers hold the same
\* envelope, an envelope held by a worker or already handed to
\* insert_aprs_line is not in the queue, a worker about to call
\* insert_aprs_line holds an envelope not handed over before, and the number
\* of insert_aprs_line calls is the number of envelopes handed over.
C14_OneWorkerOneInsert ==
    /\ \A i, j \in 1..Len(queue) : queue[i].id = queue[j].id => i = j
    /\ \A v, w \in Holders : wEnv[v].id = wEnv[w].id => v = w
    /\ \A w \in Holders : wEnv[w].id \notin QueueIds
    /\ handed \cap QueueIds = {}
    /\ \A w \in Workers : pcW[w] = "insert" => wEnv[w].id \notin handed
    /\ \A w \in Workers : pcW[w] = "count" => wEnv[w].id \in handed
    /\ insertCount = Cardinality(handed)
    /\ dequeued = Cardinality(handed)
                    + Cardinality({w \in Workers : pcW[w] = "insert"})
    /\ handed \subseteq 1..pushed

\* two envelopes were pushed, each was dequeued and handed over once, one of
\* the inserts failed, and every worker is back without an envelope
C14_Witness ==
    /\ pushed = 2
    /\ handed = {1, 2}
    /\ insertCount = 2
    /\ failed = 1
    /\ persisted = 2
    /\ queue = <<>>
    /\ Holders = {}

(***************************************************************************)
(* C15.  No interrupt is lost between the handler and the channel.         *)
(***************************************************************************)
\* C15: every interrupt raised while the main read loop is running leaves a
\* notice in the capacity-1 signal channel (the one it placed, or the one
\* already pending there): once the handler has run, the channel is full.
C15_InterruptBecomesNotice ==
    [][(MainLoopRunning /\ raised' = raised + 1)
          => ctrlcChan' = CtrlcCapacity]_vars

(***************************************************************************)
(* C16.  Cancellation is cooperative.                                      *)
(***************************************************************************)
\* C16: the main loop looks at the signal channel once at the start of every
\* iteration, also after a read that returned a recoverable error: a read
\* begins only from the head of the loop and only when the channel was found
\* empty there, and a read that returns an error leads back to the head of
\* the loop.  A notice that is in the channel while a read is blocked does
\* not end the loop before the read returns: the loop is left only from its
\* head, so the envelope of a read that returned a line is enqueued and
\* counted.  With a notice in the channel no read begins, so at most the
\* read that was blocked when the notice arrived still takes place.
C16_CooperativeCancellation ==
    /\ []((pcMain = "loop_top" /\ lastRead # NoRead /\ lastRead.outcome = "Ok")
             => (/\ pushed = lastRead.pushedBefore + 1
                 /\ parsed = lastRead.parsedBefore + 1))
    /\ [][(pcMain # "read" /\ pcMain' = "read")
              => (pcMain = "loop_top" /\ ctrlcChan = 0)]_vars
    /\ [][(pcMain = "read" /\ pcMain' # "read")
              => \/ pcMain' = "send" /\ lastRead'.outcome = "Ok" /\ mainEnv' # NoEnv
                 \/ pcMain' = "loop_top" /\ lastRead'.outcome \notin {"Ok", "Panic"}
                 \/ pcMain' = "panicked" /\ lastRead'.outcome = "Panic"]_vars
    /\ [][(pcMain = "send" /\ pcMain' # "send")
              => (pcMain' = "count" /\ queue' = Append(queue, mainEnv))]_vars
    /\ [][(pcMain = "count" /\ pcMain' # "count")
              => (pcMain' = "loop_top" /\ parsed' = parsed + 1)]_vars
    /\ [][(MainLoopRunning /\ pcMain' = "join")
              => (pcMain = "loop_top" /\ ctrlcChan = CtrlcCapacity)]_vars
    /\ [][(pcMain = "loop_top" /\ ctrlcChan = CtrlcCapacity)
              => pcMain' \in {"loop_top", "join"}]_vars

\* a notice arrived no later than the return of a read that gave a line: the
\* envelope of that read has been enqueued and counted, and the main loop is
\* at its head with the notice still in the channel
C16_Witness ==
    /\ pcMain = "loop_top"
    /\ ctrlcChan = CtrlcCapacity
    /\ raised = 1
    /\ lastRead # NoRead
    /\ lastRead.outcome = "Ok"
    /\ pushed = 1
    /\ parsed = 1

(***************************************************************************)
(* C17.  What is fatal and what is not.                                    *)
(***************************************************************************)
\* main ended in AprsClient::new
ConnectFailed == pcMain = "panicked" /\ wire = <<>>

\* C17: the only fatal conditions are a connection error at startup and the
\* end-of-stream threshold; every other error, a store that cannot be opened
\* or connected to included, is logged and the loop it occurs in goes on.
\* Main ends abnormally only in AprsClient::new or in read_line, and no
\* worker ends because of the store.
C17_OnlyTwoFatalConditions ==
    /\ pcMain # "setup_failed"
    /\ pcMain = "panicked" => (ConnectFailed \/ lastRead.outcome = "Panic")
    /\ \A w \in Workers : pcW[w] # "dead"

(***************************************************************************)
(* C18.  One connection attempt.                                           *)
(***************************************************************************)
\* the login line of the callsign of the pipeline specifications
PipelineLogin ==
    LinesCodec_encode(handshake_line(Handshake_new(PipelineCallsign)))

\* C18: AprsClient::new makes one attempt at resolving, connecting and
\* sending the login line. If one of them fails, main ends there and takes
\* no further step but the end of the process: no line has been read, no
\* worker and no reporter has been started, the store has not been touched.
\* The login line is written once, by the attempt that succeeds.
C18_SingleConnectAttempt ==
    /\ [](ConnectFailed =>
             /\ lastRead = NoRead
             /\ goodLines = 0
             /\ made = 0
             /\ parsed = 0
             /\ \A w \in Workers : pcW[w] = "unspawned"
             /\ pcLog = "unspawned"
             /\ store = {}
             /\ insertCount = 0
             /\ ~txOpen)
    /\ [][pcMain = "connect" => pcMain' \in {"connect", "setup", "panicked"}]_vars
    /\ [][pcMain = "panicked" => pcMain' = "panicked"]_vars
    /\ [][pcMain # "connect" => wire' = wire]_vars
    /\ [](pcMain \notin {"connect", "panicked"} =>
             (callsign = PipelineCallsign /\ wire = PipelineLogin))

\* the connection attempt failed and the process has ended
C18_Witness ==
    /\ ConnectFailed
    /\ exited

(***************************************************************************)
(* C20.  The counters never go down.                                       *)
(***************************************************************************)
\* C20: no step of the main task, a worker, the reporter or the shutdown
\* sequence decreases or resets the parsed counter or the persisted counter.
C20_CountersMonotonic ==
    [][parsed' >= parsed /\ persisted' >= persisted]_vars

\* both counters have gone up twice, the reporter has run, and the shutdown
\* sequence has printed the final snapshot
C20_Witness ==
    /\ parsed = 2
    /\ persisted = 2
    /\ finalSnapshot = <<2, 2>>
    /\ exited

(***************************************************************************)
(* C21.  The test line, end to end.                                        *)
(***************************************************************************)
\* the last call was given the test line, with an identifier no row had and
\* a database that did not fail
TestLineStored ==
    /\ lastInsert.called
    /\ lastInsert.data = TestStatusLine
    /\ lastInsert.fault = "none"
    /\ \A r \in lastInsert.before : r.id # lastInsert.record_uuid

\* C21: the Status envelope of "K0HAX" via "TCPIP*" with to "APRS" and the
\* comment "Test status comment" is stored as exactly one row of the status
\* table with that `to` and that comment, exactly one main_data row of the
\* same id with type 3, and no row of messages, position or MicE.
C21_TestLineEndToEnd ==
    TestLineStored =>
        /\ lastInsert.result = "Ok"
        /\ lastInsert.before \subseteq store
        /\ \E st, md \in GainedRows :
              /\ GainedRows = {st, md}
              /\ st.table = "status"
              /\ st.payload.to = StrAPRS
              /\ st.payload.comment = StrTestStatusComment
              /\ md.table = "main_data"
              /\ md.id = st.id
              /\ md.type = 3
              /\ md.from = StrK0HAX
              /\ md.via = StrTcpip
        /\ \A r \in GainedRows : r.table \notin {"messages", "position", "MicE"}

\* the test line was stored in an empty database
C21_Witness ==
    /\ TestLineStored
    /\ lastInsert.before = {}
    /\ Cardinality(store) = 2

(***************************************************************************)
(* C22.  When the workers end.                                             *)
(***************************************************************************)
\* the workers that are in their while loop
InLoop == {w \in Workers : pcW[w] \in {"lock_rx", "recv", "insert", "count"}}

\* C22: a worker leaves its loop only when the producer side is closed and
\* the queue is empty, and once both hold every worker in its loop leaves
\* it: none is still waiting for the receiver lock or for an envelope when
\* the process ends.
C22_WorkersEndWhenClosedAndEmpty ==
    /\ \A w \in Workers : pcW[w] = "done" => (~txOpen /\ QueueLen = 0)
    /\ (exited /\ ~txOpen /\ QueueLen = 0) => InLoop = {}

(***************************************************************************)
(* C23.  What changes error_count.                                         *)
(***************************************************************************)
\* a step in which read_line returns (or panics)
ReadReturns == pcMain = "read" /\ pcMain' # "read"

InStatements == {w \in Workers : pcW[w] \in {"variant", "main_data"}}

\* C24: in the embedded mode at most one worker is executing storage
\* statements at any time, and it is the one that holds the lock; the
\* variant row and the main_data row of a record are written in one lock
\* hold, so between the two no other worker changes the store.
C24_WritesSerialized ==
    /\ [](/\ Cardinality(InStatements) <= 1
          /\ \A w \in Workers : w \in InStatements <=> conn = w)
    /\ [][\A w \in Workers :
             (pcW[w] = "main_data" /\ store' # store)
                => (pcW'[w] = "count" /\ conn = w /\ conn' = 0)]_vars
    /\ [][\A w \in Workers :
             (pcW[w] = "variant" /\ pcW'[w] = "main_data")
                => (conn = w /\ conn' = w)]_vars

\* one worker has written its variant row and holds the lock while another
\* has dequeued an envelope and waits for the lock
C24_Witness ==
    \E v, w \in Workers :
        /\ pcW[v] = "main_data"
        /\ conn = v
        /\ pcW[w] = "insert"
        /\ Cardinality(store) = 1

(***************************************************************************)
(* C25.  Rendering a timestamp.                                            *)
(***************************************************************************)
\* the instant the statement gives for a value on the current date, and
\* whether it is a date and a time at all
RefInstant(y) ==
    IF y.variant = "DDHHMM"
    THEN Instant(now.year, now.month, y.x, y.y, y.z, 0)
    ELSE Instant(now.year, now.month, now.day, y.x, y.y, y.z)
RefValid(at) ==
    /\ at.day >= 1
    /\ at.day <= DaysInMonth(at.year, at.month)
    /\ at.hour <= 23
    /\ at.minute <= 59
    /\ at.second <= 59

\* C25: DDHHMM(d, h, m) renders as the current year, the current month, day
\* d, h:m:00, HHMMSS(h, m, s) as the current year, month and day, h:m:s, in
\* the format of each backend; Unsupported and a value that is no date and
\* time render as the empty string.
C25_RenderFillsCurrentDate ==
    LET y == rendered.timestamp
    IN  y.some =>
          IF y.variant \in {"DDHHMM", "HHMMSS"} /\ RefValid(RefInstant(y))
          THEN /\ rendered.fmt_string = TimeCell("%+", RefInstant(y))
               /\ rendered.mariadb_string =
                     TimeCell("%Y-%m-%d %H:%M:%S%.6f", RefInstant(y))
          ELSE /\ rendered.fmt_string = EmptyText
               /\ rendered.mariadb_string = EmptyText

(***************************************************************************)
(* The decoder                                                             *)
(***************************************************************************)
Decoded == envelope # NoEnvelope

\* C26: two decoded packets that differ in any field (source, a relay-path
\* element or one of its attributes, a payload field) map to different
\* envelopes.
C26_DecoderLosesNothing ==
    Decoded =>
        \A other \in Packets :
            other # packet => ParsedLine_from(other) # envelope

\* the field of a payload that holds text, as bytes and as decoded
TextFields == {"comment", "addressee", "text"}
FieldMapped(name) ==
    LET bytes == packet.data[name]
        mapped == envelope.fields[name]
    IN  IF packet.data.kind = "Message" <=> name = "comment"
        THEN mapped = <<>>
        ELSE IF from_utf8_ok(bytes) THEN mapped = bytes
        ELSE mapped = StrErrorParsingUtf8

\* C27: a comment, addressee or text that is not valid UTF-8 becomes
\* "<ERROR PARSING UTF8>" in that field only: the decode succeeds and the
\* source, the relay path, the variant, `to`, the timestamp, the message id
\* and the other text fields are mapped as they are.
C27_SentinelForInvalidText ==
    (Decoded /\ packet.data.kind # "Unknown") =>
        /\ \A name \in TextFields : FieldMapped(name)
        /\ envelope.from = packet.from
        /\ Len(envelope.via) = Len(packet.via)
        /\ \A i \in 1..Len(packet.via) : envelope.via[i] = packet.via[i].name
        /\ envelope.kind = packet.data.kind
        /\ envelope.fields.to = packet.data.to
        /\ envelope.fields.other = packet.data.other
        /\ envelope.timestamp = packet.data.timestamp
        /\ envelope.msg_id_some = packet.data.id_some

\* a Message whose addressee is not valid UTF-8 and whose text is
C27_Witness ==
    /\ Decoded
    /\ packet.data.kind = "Message"
    /\ ~from_utf8_ok(packet.data.addressee)
    /\ from_utf8_ok(packet.data.text)
    /\ envelope.fields.addressee = StrErrorParsingUtf8
    /\ envelope.fields.text = packet.data.text

\* the pieces of a string between the occurrences of ", ": one piece, the
\* empty one, for the empty string
RECURSIVE RefSplit(_, _)
RefSplit(str, piece) ==
    IF str = <<>> THEN <<piece>>
    ELSE IF Len(str) >= 2 /\ SubSeq(str, 1, 2) = StrCommaSpace
    THEN <<piece>> \o RefSplit(SubSeq(str, 3, Len(str)), <<>>)
    ELSE RefSplit(Tail(str), Append(piece, Head(str)))

PathNames == [i \in 1..Len(packet.via) |-> packet.via[i].name]
StoredVia == (CHOOSE r \in store : r.table = "main_data").via
DecodedAndStored ==
    /\ Decoded
    /\ lastInsert.called
    /\ lastInsert.result = "Ok"
    /\ lastInsert.before = {}

\* C28 as stated: the envelope's relay path is the packet's, in order; the
\* stored via is its elements joined by ", ", and splitting the stored via
\* on ", " gives the relay path back, whatever its length.
C28_ViaRoundTripAsStated ==
    DecodedAndStored =>
        /\ envelope.via = PathNames
        /\ StoredVia = RefJoin(PathNames, Len(PathNames))
        /\ RefSplit(StoredVia, <<>>) = PathNames

\* C28: the envelope's relay path is the packet's, in order; the stored via
\* is its elements joined by ", " with no separator before or after;
\* splitting it on ", " gives back a relay path that has elements, and
\* the via stored for a relay path with no element is the empty string.
C28_ViaRoundTrip ==
    DecodedAndStored =>
        /\ envelope.via = PathNames
        /\ StoredVia = RefJoin(PathNames, Len(PathNames))
        /\ IF PathNames = <<>> THEN StoredVia = <<>>
           ELSE RefSplit(StoredVia, <<>>) = PathNames

\* a relay path of two different elements was stored
C28_Witness ==
    /\ DecodedAndStored
    /\ Len(packet.via) = 2
    /\ packet.via[1].name # packet.via[2].name
    /\ RefSplit(StoredVia, <<>>) = PathNames

(***************************************************************************)
(* The schema operations                                                   *)
(***************************************************************************)
Database == [schema |-> schema, rows |-> store]

\* C29: create_db on a database with no table leaves the six tables and, in
\* `type`, exactly the rows (1,messages), (2,position), (3,status),
\* (4,MicE); create_db on the database it has created fails, and leaves the
\* tables, the rows of `type` and the stored rows as they are, and the
\* program goes on.
C29_TypeTablePopulatedOnce ==
    [][\A flag \in BOOLEAN, fault \in SchemaFaults, autocommit \in BOOLEAN :
          (mode = "sqlite" /\ MainSetup("ok", flag, fault, autocommit)) =>
             /\ (schema = EmptySchema /\ fault = 0) =>
                   /\ schema'.tables = AllTables
                   /\ schema'.type_rows =
                         {TypeRow(1, "messages"), TypeRow(2, "position"),
                          TypeRow(3, "status"), TypeRow(4, "MicE")}
                   /\ store' = store
             /\ schema = CreatedSchema =>
                   /\ create_db(Database, fault).result = "Err"
                   /\ schema' = schema
                   /\ store' = store
                   /\ pcMain' = "loop_top"]_vars

\* the embedded mode has been started a second time on the database the
\* first run created, with a line stored in it
C29_Witness ==
    /\ mode = "sqlite"
    /\ starts = 1
    /\ pcMain = "loop_top"
    /\ schema = CreatedSchema
    /\ store # {}

AllUnspawned == \A w \in Workers : pcW[w] = "unspawned"

\* C30: in the networked mode, a start without the flag executes no
\* statement: tables and rows stay.  A start with the flag runs
\* create_tables in main's setup, before a worker is spawned, and when it
\* succeeds the five data tables are there and empty and `type` holds
\* exactly its four rows.  Nothing else changes the tables.
C30_RecreateGatedByFlag ==
    /\ [][\A outcome \in SetupOutcomes, fault \in SchemaFaults,
            autocommit \in BOOLEAN :
            (mode = "mariadb" /\ MainSetup(outcome, FALSE, fault, autocommit))
               => (schema' = schema /\ store' = store)]_vars
    /\ [][\A autocommit \in BOOLEAN :
            (mode = "mariadb" /\ MainSetup("ok", TRUE, 0, autocommit)) =>
               /\ AllUnspawned
               /\ schema'.tables = AllTables
               /\ {r \in store' : r.table \in DataTables} = {}
               /\ schema'.type_rows =
                     {TypeRow(1, "messages"), TypeRow(2, "position"),
                      TypeRow(3, "status"), TypeRow(4, "MicE")}
               /\ pcMain' = "loop_top"]_vars
    /\ [][schema' # schema =>
            (pcMain = "setup" /\ pcMain' # "setup" /\ AllUnspawned)]_vars

\* the networked mode has been started again, with the flag, on tables that
\* held a stored line: the line is gone
C30_Witness ==
    /\ mode = "mariadb"
    /\ starts = 1
    /\ pcMain = "loop_top"
    /\ insertCount = 1
    /\ schema = CreatedSchema
    /\ store = {}

(***************************************************************************)
(* C31.  The persisted counter is at most one ahead of the parsed counter. *)
(***************************************************************************)
\* C31: in every state insert_counter is at most parse_counter + 1, and so
\* are the two numbers of the final report; a periodic report prints the
\* two counters of the state it is made in, with parse_counter held under
\* its read guard.
C31_PersistedAtMostOneAhead ==
    /\ persisted <= parsed + 1
    /\ finalSnapshot # <<>> => finalSnapshot[2] <= finalSnapshot[1] + 1

\* a worker has counted the first envelope and main_loop has not yet
C31_Witness ==
    /\ pcMain = "count"
    /\ persisted = parsed + 1

(***************************************************************************)
(* C32.  Only envelopes that were queued are counted as parsed.            *)
(***************************************************************************)
\* C32: parse_counter never exceeds the number of envelopes tx.send has put
\* in the queue: main_loop does not count an envelope whose send failed.
C32_ParsedOnlyWhenPushed == parsed <= pushed

(***************************************************************************)
(* C33.  Referential integrity of the stored rows.                         *)
(***************************************************************************)
MainDataRows == {r \in store : r.table = "main_data"}
VariantRows == {r \in store : r.table # "main_data"}

\* the last call, if any, was given an identifier that no row had
FreshIdentifier ==
    lastInsert.called =>
        \A r \in lastInsert.before : r.id # lastInsert.record_uuid

\* C33: with identifiers that are new at each call, every main_data row has
\* the id of exactly one row of the table its type code names, no two
\* main_data rows share an id, every row of a variant table has its
\* main_data row, and a call of insert_aprs_line that returns Err leaves the
\* store as it was.
C33_ReferentialIntegrity ==
    FreshIdentifier =>
        /\ \A md \in MainDataRows :
              /\ md.type \in 1..Len(TypeTable)
              /\ Cardinality({r \in VariantRows :
                                 /\ r.table = TypeTable[md.type].table
                                 /\ r.id = md.id}) = 1
        /\ \A a, b \in MainDataRows : a.id = b.id => a = b
        /\ \A r \in VariantRows : \E md \in MainDataRows : md.id = r.id
        /\ (lastInsert.called /\ lastInsert.result = "Err") =>
              store = lastInsert.before

(***************************************************************************)
(* C34.  No circular wait on the locks.                                    *)
(***************************************************************************)
\* the tasks: main (main_loop and the final report), the workers, log_loop
MainTask == 0
LogTask == NumWorkers + 1
Tasks == {MainTask, LogTask} \cup Workers
LiveWorkers == {w \in Workers : pcW[w] \notin {"unspawned", "done", "dead"}}

\* the tasks a task waits for where it stands: the holder of the lock it
\* asks for, the producer of the queue it receives from, the consumers of
\* the queue it sends to, the tasks it joins
WaitsFor(a) ==
    IF a = MainTask
    THEN IF pcMain = "count" /\ pcLog = "hold_parse" THEN {LogTask}
         ELSE IF pcMain = "send" /\ rxAlive /\ QueueLen >= QueueCapacity
         THEN LiveWorkers
         ELSE IF pcMain = "join" /\ ~loop_task_finished THEN LiveWorkers
         ELSE {}
    ELSE IF a = LogTask THEN {}
    ELSE IF pcW[a] = "lock_rx" /\ rxHolder # 0 THEN {rxHolder}
    ELSE IF pcW[a] = "recv" /\ QueueLen = 0 /\ txOpen THEN {MainTask}
    ELSE IF pcW[a] = "insert" /\ conn # 0 THEN {conn}
    ELSE {}

\* the tasks reached from a set of tasks along WaitsFor
RECURSIVE WaitClosure(_, _)
WaitClosure(set, n) ==
    IF n = 0 THEN set
    ELSE WaitClosure(set \cup UNION {WaitsFor(b) : b \in set}, n - 1)

\* the task waits for a lock, and the task that holds it
LockWaits ==
    {<<a, h>> \in Tasks \X Tasks :
        \/ a = MainTask /\ h = LogTask /\ pcMain = "count" /\ pcLog = "hold_parse"
        \/ a \in Workers /\ pcW[a] = "lock_rx" /\ h \in Workers /\ h = rxHolder
        \/ a \in Workers /\ pcW[a] = "insert" /\ h \in Workers /\ h = conn}

\* the holder of a lock has a step to take
HolderCanStep(h) ==
    IF h = LogTask THEN ENABLED LogPrint
    ELSE IF h \in Workers /\ pcW[h] = "recv"
    THEN \/ ENABLED WorkerRecvSome(h)
         \/ ENABLED WorkerRecvNone(h)
         \/ WaitsFor(h) = {MainTask}
    ELSE /\ h \in Workers
         /\ \/ ENABLED SqliteVariant(h, "none")
            \/ ENABLED SqliteMainData(h, "none")

\* C34: while the process runs, a task that waits for the parse_counter
\* lock, the Receiver's lock or the Mutex of the Connection waits for a
\* holder that has a step to take or waits for the producer only, and no
\* task waits, directly or through others, for itself; a task that asks
\* for a free lock gets it.
C34_NoCircularWait ==
    ~exited =>
        /\ \A p \in LockWaits :
              /\ HolderCanStep(p[2])
              /\ p[1] \notin WaitClosure({p[2]}, NumWorkers + 1)
        /\ \A a \in Tasks : a \notin WaitClosure(WaitsFor(a), NumWorkers + 1)
        /\ (pcMain = "count" /\ WaitsFor(MainTask) = {}) => ENABLED MainCount
        /\ \A w \in Workers :
              /\ (pcW[w] = "lock_rx" /\ WaitsFor(w) = {}) => ENABLED WorkerLockRx(w)
              /\ (pcW[w] = "insert" /\ WaitsFor(w) = {}) => ENABLED SqliteLock(w)
        /\ pcLog = "idle" => ENABLED LogLockParse
        /\ pcMain = "final" => ENABLED MainFinal

\* main_loop waits for the reporter's read guard while a worker waits for
\* the Connection another worker holds, and the third worker has the
\* Receiver
C34_Witness ==
    /\ <<MainTask, LogTask>> \in LockWaits
    /\ \E a, h \in Workers : a # h /\ <<a, h>> \in LockWaits /\ pcW[a] = "insert"
    /\ \E h \in Workers : rxHolder = h /\ WaitsFor(h) = {MainTask}

(***************************************************************************)
(* C35.  The final report after an interrupt, embedded mode.               *)
(***************************************************************************)
\* C35: in sqlite mode, once main has printed its final line the two
\* numbers printed are equal and are the final values of the counters:
\* every line counted as parsed was sent, received by a worker and given to
\* insert_aprs_line once, and nothing is left in the queue or with a worker.
C35_FinalCountsAgree ==
    (mode = "sqlite" /\ finalSnapshot # <<>>) =>
        /\ finalSnapshot[1] = finalSnapshot[2]
        /\ finalSnapshot = <<parsed, persisted>>
        /\ parsed = pushed
        /\ handed = 1..parsed
        /\ insertCount = parsed
        /\ QueueLen = 0
        /\ \A w \in Workers : pcW[w] = "done"

\* the final line reports two lines parsed and two inserted, one of them
\* with a failed insert
C35_Witness ==
    /\ mode = "sqlite"
    /\ finalSnapshot = <<2, 2>>
    /\ failed = 1
    /\ ~exited

(***************************************************************************)
(* C36.  generate_passcode as an Option, over any characters.              *)
(***************************************************************************)
\* the characters of the passcode specification: the callsign characters,
\* 'É' (U+00C9), '€' (U+20AC) and U+1F600, none of them changed by
\* to_uppercase, the last one wider than a u16
WideChars == CallChars \cup {201, 8364, 128512}

\* str::split('-'): the pieces between the separators, from position i on,
\* `piece` being the piece read so far
RECURSIVE split(_, _, _)
split(s, i, piece) ==
    IF i > Len(s) THEN <<piece>>
    ELSE IF s[i] = DashChar THEN <<piece>> \o split(s, i + 1, <<>>)
    ELSE split(s, i + 1, Append(piece, s[i]))

\* Iterator::next on the pieces
split_next(s) ==
    LET pieces == split(s, 1, <<>>)
    IN  IF pieces = <<>> THEN [some |-> FALSE, value |-> <<>>]
        ELSE [some |-> TRUE, value |-> pieces[1]]

\* generate_passcode(callsign) with its Option: the `?` returns None when
\* next() gives None, the last line returns Some
generate_passcode_option(callsign_) ==
    LET first == split_next(callsign_)
    IN  IF ~first.some THEN [some |-> FALSE, value |-> <<>>]
        ELSE [some |-> TRUE,
              value |-> to_string(passcode_loop(to_uppercase(first.value), 1,
                                                PasscodeSeed, TRUE))]

\* the handshake for any callsign of up to MaxCallLen characters of WideChars
InitPasscode ==
    /\ callsign \in StringsUpTo(WideChars, MaxCallLen)
    /\ variant = callsign
    /\ mode = "sqlite"
    /\ store = {}
    /\ schema = CreatedSchema
    /\ now = PipelineNow
    /\ rendered = NoRender
    /\ InitPipeline

NextPasscode == \E outcome \in ConnectOutcomes : MainConnect(outcome)

SpecPasscode == InitPasscode /\ [][NextPasscode]_vars

Str29666 == <<50, 57, 54, 54, 54>>
IsAscii(s) == \A i \in 1..Len(s) : s[i] < 128

\* C36: generate_passcode returns Some for every callsign, and what it
\* holds is the decimal string of a number in 0..65535, "29666" when nothing
\* stands before the first '-', and of a number below 32768 when the
\* callsign has 7-bit ASCII characters only; Handshake::new gets that string.
C36_PasscodeTotalAndInRange ==
    LET result == generate_passcode_option(callsign)
    IN  /\ result.some
        /\ result.value = generate_passcode(callsign)
        /\ Handshake_new(callsign).passcode = result.value
        /\ IsDecimalOf(result.value, ParseDecimal(result.value))
        /\ ParseDecimal(result.value) \in 0..(U16 - 1)
        /\ split_next(callsign).value = <<>> => result.value = Str29666
        /\ IsAscii(callsign) => ParseDecimal(result.value) < 32768

\* the login line was sent for "-N": nothing before the '-', ASCII only
C36_Witness ==
    /\ pcMain = "setup"
    /\ wire # <<>>
    /\ callsign = <<45, 78>>
    /\ generate_passcode_option(callsign).value = Str29666

====
